---------------------------- MODULE Spec2Model ----------------------------
(***************************************************************************)
(* Model of the CARLA <-> DORA bridge:                                     *)
(*   - receiver_node.py : SensorDataBuffer shared by the UDP listener, the *)
(*     TCP connection handlers and the DORA main loop;                     *)
(*   - control_node.py  : validate / clamp of control commands and the     *)
(*     retrying UDP sender;                                                *)
(*   - planner_operator.py : the waypoint-following planner;               *)
(*   - receiver_node.py : the UDP and TCP listener threads with the        *)
(*     outcomes of their socket calls.                                     *)
(* Each component has its own specification (SpecReceiver, SpecReceiverFair,*)
(* SpecSender, SpecCommand, SpecPlanner, SpecTransport); the variables of  *)
(* the other components are left unchanged by it.                          *)
(***************************************************************************)
EXTENDS Integers, Sequences, FiniteSets, TLC

(***************************************************************************)
(* Bounds of the model.                                                    *)
(***************************************************************************)
\* Number of sensor samples the peers send in one run.
MaxSamples == 2

\* Number of send_control_command calls in one run.
MaxCalls == 2

\* Number of well-formed position fixes in one run that reach no waypoint;
\* the fixes that reach one are as many as the route has waypoints.
MaxIdleFixes == 2

\* Largest payload length a stream client announces, in bytes.
MaxLen == 2
MaxComputes == 3

\* Resolution of the command values: the integer n stands for the float
\* n / Unit, so 1.0 is Unit and the values between 0.0 and 1.0 are 0..Unit.
Unit == 2

(***************************************************************************)
(* Receiver: SensorDataBuffer and the threads that use it.                 *)
(***************************************************************************)
Kinds == {"gnss", "imu", "lidar"}

\* The value Python's None is modelled by (samples are numbered from 1).
None == 0

\* lock = NoHolder: threading.Lock() is not held.
NoHolder == "nobody"

UdpThread == "udp"
Handlers == {"tcp1", "tcp2"}
MainThread == "main"
Listeners == {UdpThread} \cup Handlers
Threads == Listeners \cup {MainThread}

\* The kinds a listener thread can store: the datagram listener forwards
\* gnss and imu records, a connection handler stores lidar payloads.
KindsOf(t) == IF t = UdpThread THEN {"gnss", "imu"} ELSE {"lidar"}

\* The order in which main() polls the buffer.
PollOrder == <<"gnss", "imu", "lidar">>

VARIABLES
    \* receiver_node.py
    data,        \* data[k]   : self.<k>_data
    updated,     \* updated[k]: self.<k>_updated
    lock,        \* holder of self.lock, or NoHolder
    pc,          \* pc[t]: position of thread t
    argKind,     \* argKind[t]: kind of the sample listener t is storing
    argVal,      \* argVal[t] : the sample listener t is storing
    pollIdx,     \* index in PollOrder of the kind main() is polling
    localData,   \* the local variable `data` of get_and_clear_*
    result,      \* value returned by the last get_and_clear_* call
    nextId,      \* number of the next sample a peer sends
    sinceTake,   \* history: sinceTake[k] = samples stored since the last take(k)
    stored,      \* history: stored[k] = samples stored by a set of kind k, in order
    takeSnap,    \* history: sinceTake[k] as it was when the current take(k) decided
    overwritten, \* history: samples replaced by a later set before any take
    returned,    \* history: returned[k] = samples returned by take(k), in order
    published,   \* published[k] = samples sent with node.send_output, in order
    \* control_node.py, validate_control_command / clamp_control_command
    cmd,         \* the command the functions are applied to
    cmdPc,       \* which of the results below have been computed
    cmdValid,    \* validate_control_command(cmd)
    cmdClamped,  \* clamp_control_command(cmd)
    cmdClamped2, \* clamp_control_command(clamp_control_command(cmd))
    \* control_node.py, UDPControlSender
    sock,          \* self.socket: "open", or "none" for None
    commandsSent,  \* self.commands_sent
    sendFailures,  \* self.send_failures
    sendPc,        \* position inside send_control_command, "idle" outside
    control,       \* the local `control` of send_control_command
    payload,       \* the local `control_bytes`
    attempt,       \* the loop variable `attempt`
    retVal,        \* what the last send_control_command call returned
    calls,         \* history: number of send_control_command calls made
    inputCmd,      \* history: the argument of the current call
    sockAtCall,    \* history: self.socket when the current call began
    recreates,     \* history: _create_socket calls made by the current call
    attemptsMade,  \* history: sendto calls made by the current call
    failedAttempts,\* history: sendto calls of the current call that raised or wrote short
    lastSent,      \* history: what the last sendto of the current call returned
    sleeps,        \* history: time.sleep(RETRY_DELAY) calls made by the current call
    sentAtCall,    \* history: commands_sent when the current call began
    failAtCall,    \* history: send_failures when the current call began
    handed,        \* history: the bytes last handed to sendto by the current call
    \* planner_operator.py, Operator
    current_waypoint_index, \* self.current_waypoint_index
    path_completed,         \* self.path_completed
    vehicle_position,       \* self.vehicle_position
    vehicle_heading,        \* self.vehicle_heading, in degrees
    total_commands_sent,    \* self.total_commands_sent
    emitted,     \* the control_cmd outputs sent by the last on_event call, in order
    lastEvent,   \* history: what the last on_event call was given
    lastHeading, \* history: the "heading" field of the record, for a fix
    fixes,       \* history: the positions of the well-formed fixes, in order
    indexed,     \* history: the positions at which self.waypoints was indexed
    \* receiver_node.py, udp_server_thread / tcp_server_thread / handle_lidar_client
    srvPc,       \* position of tcp_server_thread
    dgram,       \* the datagram udp_server_thread received last
    msgLen,      \* msgLen[h]: message_length of connection handler h
    got,         \* got[h]: len(received_data) of connection handler h
    received_data, \* received_data[h]: the bytes handler h has assembled
    dropped,     \* history: udp_server_thread has dropped a datagram
    stalled,     \* the listener threads whose peer sends and closes nothing any more
    \* control_node.py, main
    loopPc,      \* the DORA event loop of main(): "running", "shutdown" or "crashed"
    skipped,     \* history: the loop was given an event it sends nothing for
    stats,       \* the dict get_statistics returned last, << >> once it is dropped
    \* vehicle_controller.py, a PIDController on its own
    pid,         \* its kp, ki, kd, previous_error and integral
    pidOut,      \* what its last compute call returned
    pidLast,     \* history: its last call, and whether it followed a reset
    pidCalls,    \* history: number of compute calls made on it
    \* vehicle_controller.py, VehicleController
    speed_controller,    \* self.speed_controller
    steering_controller, \* self.steering_controller
    current_speed,       \* self.current_speed
    target_speed,        \* self.target_speed
    target_steering,     \* self.target_steering
    ctlOut,      \* the dict compute_control returned last, with the PID output
    ctlCalls,    \* history: number of compute_control calls made
    ctlHist,     \* history: the speed errors computed since construction or reset
    \* planner_operator.py, calculate_pure_pursuit_steering on its own
    steerIn,     \* the arguments: vehicle position, heading, target point
    steerOut,    \* what the call returned, << >> before it
    \* agent_wrapper.py, DoraUDPBridge
    bridgePc,    \* position inside receive_control, "idle" outside
    bridgeQueue, \* the datagrams waiting in recv_socket, oldest first
    bridgeRet,   \* what the last receive_control call returned
    bridgeRaised,\* history: a receive_control call raised
    bridgeTaken, \* history: the datagram the current call took from the socket
    bridgeSent   \* history: number of datagrams sent to the bridge

varsReceiver == <<data, updated, lock, pc, argKind, argVal, pollIdx, localData,
                  result, nextId, sinceTake, stored, takeSnap, overwritten, returned,
                  published>>

varsCommand == <<cmd, cmdPc, cmdValid, cmdClamped, cmdClamped2>>

varsSender == <<sock, commandsSent, sendFailures, sendPc, control, payload,
                attempt, retVal, calls, inputCmd, sockAtCall, recreates,
                attemptsMade, failedAttempts, lastSent, sleeps, sentAtCall,
                failAtCall, handed>>

varsPlanner == <<current_waypoint_index, path_completed, vehicle_position,
                 vehicle_heading, total_commands_sent, emitted, lastEvent,
                 lastHeading,
                 fixes, indexed>>

varsTransport == <<srvPc, dgram, msgLen, got, received_data, dropped, stalled>>

varsLoop == <<loopPc, skipped, stats>>

varsPid == <<pid, pidOut, pidLast, pidCalls>>

varsVehicle == <<speed_controller, steering_controller, current_speed,
                 target_speed, target_steering, ctlOut, ctlCalls, ctlHist>>

varsSteering == <<steerIn, steerOut>>

varsBridge == <<bridgePc, bridgeQueue, bridgeRet, bridgeRaised, bridgeTaken,
                bridgeSent>>

varsControl == <<varsPid, varsVehicle, varsSteering, varsBridge>>

vars == <<varsReceiver, varsCommand, varsSender, varsPlanner, varsTransport,
          varsLoop, varsControl>>

\* What the steps of the buffer's users leave alone.
notReceiver == <<varsCommand, varsSender, varsPlanner, varsTransport, varsLoop,
    varsControl>>

\* What the steps applying validate and clamp leave alone.
notCommand == <<varsReceiver, varsSender, varsPlanner, varsTransport, varsLoop,
    varsControl>>

\* What the sender's steps leave alone.
notSender == <<varsReceiver, varsCommand, varsPlanner, varsTransport, varsLoop,
    varsControl>>

\* What the steps of the sender and of its caller leave alone.
notSenderLoop == <<varsReceiver, varsCommand, varsPlanner, varsTransport,
                  varsControl>>

\* What the planner's steps leave alone.
notPlanner == <<varsReceiver, varsCommand, varsSender, varsTransport, varsLoop,
    varsControl>>

\* What the steps of a PIDController on its own leave alone.
notPid == <<varsReceiver, varsCommand, varsSender, varsPlanner, varsTransport,
            varsLoop, varsVehicle, varsSteering, varsBridge>>

\* What the steps of the VehicleController leave alone.
notVehicle == <<varsReceiver, varsCommand, varsSender, varsPlanner, varsTransport,
                varsLoop, varsPid, varsSteering, varsBridge>>

\* What the steps applying calculate_pure_pursuit_steering leave alone.
notSteering == <<varsReceiver, varsCommand, varsSender, varsPlanner, varsTransport,
                 varsLoop, varsPid, varsVehicle, varsBridge>>

\* What the steps of the DoraUDPBridge leave alone.
notBridge == <<varsReceiver, varsCommand, varsSender, varsPlanner, varsTransport,
               varsLoop, varsPid, varsVehicle, varsSteering>>

\* What the steps of the listeners' sockets leave alone.
notTransport == <<varsCommand, varsSender, varsPlanner, varsLoop,
    varsControl>>

\* A command without any field: {}.
EmptyCommand == << >>

\* No bytes: nothing was handed to sendto.
NoBytes == << >>

\* What a sendto call did: it raised (socket.timeout, socket.error or another
\* exception), or it returned the number n of bytes written.
SendtoRaised == [raised |-> TRUE, n |-> 0]
SendtoWrote(n) == [raised |-> FALSE, n |-> n]

\* The state of a sender between two send_control_command calls, the
\* history of the last call forgotten.
SenderAtRest ==
    /\ sendPc = "idle"
    /\ control = EmptyCommand
    /\ payload = NoBytes
    /\ attempt = 0
    /\ retVal = "none"
    /\ inputCmd = EmptyCommand
    /\ sockAtCall = "open"
    /\ recreates = 0
    /\ attemptsMade = 0
    /\ failedAttempts = 0
    /\ lastSent = SendtoWrote(0)
    /\ sleeps = 0
    /\ handed = NoBytes
    /\ sentAtCall = 0
    /\ failAtCall = 0

\* The sender is not in use.
QuietSender ==
    /\ SenderAtRest
    /\ sock = "open"
    /\ commandsSent = 0
    /\ sendFailures = 0
    /\ calls = 0

\* No statistics dict is held.
NoStats == << >>

\* PIDController.__init__(kp, ki, kd): the gains, and a state of zeros.
PIDController(kp, ki, kd) ==
    [kp |-> kp, ki |-> ki, kd |-> kd, previous_error |-> 0, integral |-> 0]

\* Nothing was computed yet.
NoOutput == << >>

\* The PIDController on its own is not in use.
QuietPid ==
    /\ pid = PIDController(100, 10, 1)
    /\ pidOut = NoOutput
    /\ pidLast = [op |-> "init", fresh |-> FALSE, dirty |-> FALSE]
    /\ pidCalls = 0

\* VehicleController.__init__.
QuietVehicle ==
    /\ speed_controller = PIDController(50, 10, 5)
    /\ steering_controller = PIDController(100, 0, 10)
    /\ current_speed = 0
    /\ target_speed = 0
    /\ target_steering = 0
    /\ ctlOut = NoOutput
    /\ ctlCalls = 0
    /\ ctlHist = << >>

\* calculate_pure_pursuit_steering is not in use.
QuietSteering ==
    /\ steerIn = << <<0, 0>>, 0, <<0, 0>> >>
    /\ steerOut = NoOutput

\* DoraUDPBridge.__init__: the receiving socket is bound, with its timeout
\* set, and nothing has been sent to it.
QuietBridge ==
    /\ bridgePc = "idle"
    /\ bridgeQueue = << >>
    /\ bridgeRet = NoOutput
    /\ bridgeRaised = FALSE
    /\ bridgeTaken = NoOutput
    /\ bridgeSent = 0

QuietControl == QuietPid /\ QuietVehicle /\ QuietSteering /\ QuietBridge

\* main() of the control node in its event loop, nothing skipped so far.
QuietLoop ==
    /\ loopPc = "running"
    /\ skipped = FALSE
    /\ stats = NoStats

\* The command functions are not in use.
QuietCommand ==
    /\ cmd = EmptyCommand
    /\ cmdPc = "off"
    /\ cmdValid = FALSE
    /\ cmdClamped = EmptyCommand
    /\ cmdClamped2 = EmptyCommand

\* vehicle_position before the first fix: None.
NoPosition == << >>

\* Operator.__init__: the planner before its first event.
QuietPlanner ==
    /\ current_waypoint_index = 0
    /\ path_completed = FALSE
    /\ vehicle_position = NoPosition
    /\ vehicle_heading = 0
    /\ total_commands_sent = 0
    /\ emitted = << >>
    /\ lastEvent = "none"
    /\ lastHeading = [present |-> FALSE, degrees |-> 0]
    /\ fixes = << >>
    /\ indexed = {}

\* No datagram has been received yet.
NoDatagram == [class |-> "none", id |-> None]

\* The listeners' sockets where the receiver's samples arrive whole: both
\* listeners are bound, no datagram and no message is being read.
QuietTransport ==
    /\ srvPc = "accept"
    /\ dgram = NoDatagram
    /\ msgLen = [h \in Handlers |-> 0]
    /\ got = [h \in Handlers |-> 0]
    /\ received_data = [h \in Handlers |-> << >>]
    /\ dropped = FALSE
    /\ stalled = {}

CriticalPcs == {"set_data", "set_flag", "set_release",
                "take_test", "take_read", "take_clear", "take_release"}

\* SensorDataBuffer.__init__ and the threads main() starts.
BufferInit ==
    /\ data = [k \in Kinds |-> None]
    /\ updated = [k \in Kinds |-> FALSE]
    /\ lock = NoHolder
    /\ pc = [t \in Threads |-> IF t = MainThread THEN "wait_event" ELSE "recv"]
    /\ argKind = [t \in Listeners |-> "lidar"]
    /\ argVal = [t \in Listeners |-> None]
    /\ pollIdx = 1
    /\ localData = None
    /\ result = None
    /\ nextId = 1
    /\ sinceTake = [k \in Kinds |-> <<>>]
    /\ stored = [k \in Kinds |-> <<>>]
    /\ takeSnap = <<>>
    /\ overwritten = [k \in Kinds |-> {}]
    /\ returned = [k \in Kinds |-> <<>>]
    /\ published = [k \in Kinds |-> <<>>]

\* The receiver not running.
QuietReceiver == BufferInit

InitReceiver ==
    /\ BufferInit
    /\ QuietTransport
    /\ QuietCommand
    /\ QuietSender
    /\ QuietLoop
    /\ QuietControl
    /\ QuietPlanner

\* Mutant of LockFree: the `with self.lock:` is missing, nothing is waited for.
LockFreeAlways(t) == TRUE

\* `with self.lock:` can be entered by thread t.
LockFree(t) == lock = NoHolder

\* A listener receives a complete sample from its peer (recvfrom + json.loads
\* with type gnss/imu, or a whole length-prefixed lidar message) and calls
\* set_<kind>(sample).
Recv(t) ==
    /\ pc[t] = "recv"
    /\ nextId <= MaxSamples
    /\ \E k \in KindsOf(t) :
         /\ argKind' = [argKind EXCEPT ![t] = k]
         /\ argVal' = [argVal EXCEPT ![t] = nextId]
    /\ nextId' = nextId + 1
    /\ pc' = [pc EXCEPT ![t] = "set_acquire"]
    /\ UNCHANGED <<data, updated, lock, pollIdx, localData, result, sinceTake, stored,
                   takeSnap, overwritten, returned, published>>
    /\ UNCHANGED notReceiver

\* set_*: `with self.lock:`
SetAcquire(t) ==
    /\ pc[t] = "set_acquire"
    /\ LockFree(t)
    /\ lock' = t
    /\ pc' = [pc EXCEPT ![t] = "set_data"]
    /\ UNCHANGED <<data, updated, argKind, argVal, pollIdx, localData, result,
                   nextId, sinceTake, stored, takeSnap, overwritten, returned, published>>
    /\ UNCHANGED notReceiver

\* Mutant of StoredData: an unconsumed sample is kept, the new one dropped.
StoredDataFirstWins(k, v) == IF updated[k] THEN data ELSE [data EXCEPT ![k] = v]

\* The slot after `self.<k>_data = data`.
StoredData(k, v) == [data EXCEPT ![k] = v]

\* set_*: `self.<k>_data = data`
SetData(t) ==
    /\ pc[t] = "set_data"
    /\ data' = StoredData(argKind[t], argVal[t])
    /\ pc' = [pc EXCEPT ![t] = "set_flag"]
    /\ UNCHANGED <<updated, lock, argKind, argVal, pollIdx, localData, result,
                   nextId, sinceTake, stored, takeSnap, overwritten, returned, published>>
    /\ UNCHANGED notReceiver

\* set_*: `self.<k>_updated = True`.  The set is complete here: the samples
\* stored since the last take and not taken are now overwritten.
SetFlag(t) ==
    LET k == argKind[t] IN
    /\ pc[t] = "set_flag"
    /\ updated' = [updated EXCEPT ![k] = TRUE]
    /\ overwritten' = [overwritten EXCEPT
                         ![k] = @ \cup {sinceTake[k][i] : i \in 1..Len(sinceTake[k])}]
    /\ sinceTake' = [sinceTake EXCEPT ![k] = Append(@, argVal[t])]
    /\ stored' = [stored EXCEPT ![k] = Append(@, argVal[t])]
    /\ pc' = [pc EXCEPT ![t] = "set_release"]
    /\ UNCHANGED <<data, lock, argKind, argVal, pollIdx, localData, result,
                   nextId, takeSnap, returned, published>>
    /\ UNCHANGED notReceiver

\* Mutant of Released: the lock is kept beyond the assignments.
ReleasedNever(t) == lock

\* The lock after the `with self.lock:` block of thread t is left.
Released(t) == NoHolder

\* set_*: end of the `with` block; the listener goes back to its receive (the
\* arguments of the call are gone).
SetRelease(t) ==
    /\ pc[t] = "set_release"
    /\ lock' = Released(t)
    /\ pc' = [pc EXCEPT ![t] = "recv"]
    /\ argKind' = [argKind EXCEPT ![t] = "lidar"]
    /\ argVal' = [argVal EXCEPT ![t] = None]
    /\ UNCHANGED <<data, updated, pollIdx, localData, result,
                   nextId, sinceTake, stored, takeSnap, overwritten, returned, published>>
    /\ UNCHANGED notReceiver

\* main(): `for event in node:` delivers an event; polling starts with gnss.
MainEvent ==
    /\ pc[MainThread] = "wait_event"
    /\ pollIdx' = 1
    /\ pc' = [pc EXCEPT ![MainThread] = "take_acquire"]
    /\ UNCHANGED <<data, updated, lock, argKind, argVal, localData, result,
                   nextId, sinceTake, stored, takeSnap, overwritten, returned, published>>
    /\ UNCHANGED notReceiver

\* get_and_clear_*: `with self.lock:`
TakeAcquire ==
    /\ pc[MainThread] = "take_acquire"
    /\ LockFree(MainThread)
    /\ lock' = MainThread
    /\ pc' = [pc EXCEPT ![MainThread] = "take_test"]
    /\ UNCHANGED <<data, updated, argKind, argVal, pollIdx, localData, result,
                   nextId, sinceTake, stored, takeSnap, overwritten, returned, published>>
    /\ UNCHANGED notReceiver

\* get_and_clear_*: `if self.<k>_updated:` ... else `return None`.
\* The take decides here which samples it consumes.
TakeTest ==
    LET k == PollOrder[pollIdx] IN
    /\ pc[MainThread] = "take_test"
    /\ takeSnap' = sinceTake[k]
    /\ sinceTake' = [sinceTake EXCEPT ![k] = <<>>]
    /\ IF updated[k]
         THEN /\ pc' = [pc EXCEPT ![MainThread] = "take_read"]
              /\ UNCHANGED result
         ELSE /\ pc' = [pc EXCEPT ![MainThread] = "take_release"]
              /\ result' = None
    /\ UNCHANGED <<data, updated, lock, argKind, argVal, pollIdx, localData,
                   nextId, stored, overwritten, returned, published>>
    /\ UNCHANGED notReceiver

\* get_and_clear_*: `data = self.<k>_data`
TakeRead ==
    LET k == PollOrder[pollIdx] IN
    /\ pc[MainThread] = "take_read"
    /\ localData' = data[k]
    /\ pc' = [pc EXCEPT ![MainThread] = "take_clear"]
    /\ UNCHANGED <<data, updated, lock, argKind, argVal, pollIdx, result,
                   nextId, sinceTake, stored, takeSnap, overwritten, returned, published>>
    /\ UNCHANGED notReceiver

\* Mutant of ClearedFlag: the read does not drain the update flag.
ClearedFlagKept(k) == updated

\* The flags after `self.<k>_updated = False`.
ClearedFlag(k) == [updated EXCEPT ![k] = FALSE]

\* get_and_clear_*: `self.<k>_updated = False; return data`
TakeClear ==
    LET k == PollOrder[pollIdx] IN
    /\ pc[MainThread] = "take_clear"
    /\ updated' = ClearedFlag(k)
    /\ result' = localData
    /\ returned' = [returned EXCEPT ![k] = Append(@, localData)]
    /\ pc' = [pc EXCEPT ![MainThread] = "take_release"]
    /\ UNCHANGED <<data, lock, argKind, argVal, pollIdx, localData,
                   nextId, sinceTake, stored, takeSnap, overwritten, published>>
    /\ UNCHANGED notReceiver

\* get_and_clear_*: the `with` block is left by the return (the local `data`
\* is gone).
TakeRelease ==
    /\ pc[MainThread] = "take_release"
    /\ lock' = Released(MainThread)
    /\ localData' = None
    /\ pc' = [pc EXCEPT ![MainThread] = "publish"]
    /\ UNCHANGED <<data, updated, argKind, argVal, pollIdx, result,
                   nextId, sinceTake, stored, takeSnap, overwritten, returned, published>>
    /\ UNCHANGED notReceiver

\* main(): `if <k>_data is not None: node.send_output(...)`, then the next
\* kind is polled, or the loop sleeps after lidar.
Publish ==
    LET k == PollOrder[pollIdx] IN
    /\ pc[MainThread] = "publish"
    /\ published' = IF result # None
                      THEN [published EXCEPT ![k] = Append(@, result)]
                      ELSE published
    /\ IF pollIdx < Len(PollOrder)
         THEN /\ pollIdx' = pollIdx + 1
              /\ pc' = [pc EXCEPT ![MainThread] = "take_acquire"]
         ELSE /\ pollIdx' = 1
              /\ pc' = [pc EXCEPT ![MainThread] = "sleep"]
    /\ result' = None
    /\ takeSnap' = <<>>
    /\ UNCHANGED <<data, updated, lock, argKind, argVal, localData,
                   nextId, sinceTake, stored, overwritten, returned>>
    /\ UNCHANGED notReceiver

\* main(): `time.sleep(0.01)`, then back to `for event in node:`.
MainSleep ==
    /\ pc[MainThread] = "sleep"
    /\ pc' = [pc EXCEPT ![MainThread] = "wait_event"]
    /\ UNCHANGED <<data, updated, lock, argKind, argVal, pollIdx, localData,
                   result, nextId, sinceTake, stored, takeSnap, overwritten, returned,
                   published>>
    /\ UNCHANGED notReceiver

ListenerStep(t) ==
    \/ Recv(t)
    \/ SetAcquire(t)
    \/ SetData(t)
    \/ SetFlag(t)
    \/ SetRelease(t)

MainStep ==
    \/ MainEvent
    \/ TakeAcquire
    \/ TakeTest
    \/ TakeRead
    \/ TakeClear
    \/ TakeRelease
    \/ Publish
    \/ MainSleep

NextReceiver ==
    \/ \E t \in Listeners : ListenerStep(t)
    \/ MainStep

SpecReceiver == InitReceiver /\ [][NextReceiver]_vars

\* Fairness of the receiver's threads: a thread that can run a step of a
\* critical section, publish or sleep eventually runs it, and a thread waiting
\* for the lock gets it if it is free again and again.  Nothing forces a peer
\* to send (Recv) or DORA to deliver an event (MainEvent).
FairReceiver ==
    /\ \A t \in Listeners :
         /\ SF_vars(SetAcquire(t))
         /\ WF_vars(SetData(t) \/ SetFlag(t) \/ SetRelease(t))
    /\ SF_vars(TakeAcquire)
    /\ WF_vars(TakeTest \/ TakeRead \/ TakeClear \/ TakeRelease \/ Publish \/ MainSleep)

SpecReceiverFair == InitReceiver /\ [][NextReceiver]_vars /\ FairReceiver

(***************************************************************************)
(* Claims about the sensor buffer.                                         *)
(***************************************************************************)
SeqRange(s) == {s[i] : i \in 1..Len(s)}

\* The kind main() is polling.
PollKind == PollOrder[pollIdx]

\* A get_and_clear_* call has decided its return value.
TakeDecided == pc[MainThread] \in {"take_release", "publish"}

\* C1: a take returns the sample of the last set made since the previous take
\* of that kind, and returns None when there was no such set (a second
\* consecutive take, or a kind never set).
C1_TakeReturnsValueOnce ==
    TakeDecided =>
        /\ (takeSnap = <<>> => result = None)
        /\ (takeSnap # <<>> => result = takeSnap[Len(takeSnap)])

\* C1 witness: a second consecutive take of a kind that was set and taken
\* before returns None.
C1_Witness ==
    /\ pc[MainThread] = "publish"
    /\ returned[PollKind] # <<>>
    /\ takeSnap = <<>>
    /\ result = None

\* C2: last write wins.  A sample overwritten by a later set before any take
\* is never returned; of the samples stored since the last take only the last
\* one is unconsumed, and it is the one the buffer exposes.
C2_LastWriteWins ==
    \A k \in Kinds :
        /\ SeqRange(returned[k]) \cap overwritten[k] = {}
        /\ Cardinality(SeqRange(sinceTake[k]) \ overwritten[k]) <= 1
        /\ (lock = NoHolder /\ updated[k])
             => SeqRange(sinceTake[k]) \ overwritten[k] = {data[k]}

\* C2 witness: two sets of one kind without a take between them, and the take
\* that follows returned the second sample.
C2_Witness ==
    /\ pc[MainThread] = "publish"
    /\ Len(takeSnap) >= 2
    /\ result = takeSnap[Len(takeSnap)]
    /\ takeSnap[1] \in overwritten[PollKind]

\* C3: set and take exclude each other, and no completed set is lost: while
\* nobody is inside a critical section, the last sample stored since the last
\* take is still the one exposed by the buffer.
C3_AtomicSetTake ==
    /\ \A t \in Threads : pc[t] \in CriticalPcs => lock = t
    /\ lock = NoHolder =>
         \A k \in Kinds :
             sinceTake[k] # <<>> =>
                 /\ updated[k]
                 /\ data[k] = sinceTake[k][Len(sinceTake[k])]

\* C3 witness: a listener is ready to store a sample of the kind the control
\* loop is taking, while the control loop is inside get_and_clear_*.
C3_Witness ==
    /\ pc[MainThread] = "take_read"
    /\ \E t \in Listeners : pc[t] = "set_acquire" /\ argKind[t] = PollKind

\* Positions at which a thread asks for the lock.
AcquirePcs == {"set_acquire", "take_acquire"}

\* C4: the lock is held only for the slot and flag assignments (its holder is
\* never at a receive, a sleep or a publish), and every thread that asks for
\* the lock eventually holds it, also while other listeners stay blocked.
C4_LockHeldOnlyForAssignments ==
    /\ [](\A t \in Threads : lock = t => pc[t] \in CriticalPcs)
    /\ \A t \in Threads : (pc[t] \in AcquirePcs) ~> (lock = t)

\* C4 witness: the control loop waits for the lock held by a connection
\* handler while the datagram listener is blocked on its peer.
C4_Witness ==
    /\ pc[MainThread] = "take_acquire"
    /\ lock \in Handlers
    /\ pc[UdpThread] = "recv"

(***************************************************************************)
(* control_node.py: validate_control_command and clamp_control_command.    *)
(* A command is a Python dict, modelled as a function from the fields it   *)
(* carries to their values.                                                *)
(***************************************************************************)
Fields == {"steer", "throttle", "brake"}

\* Command values: floats from one step below -1.0 to one step above 1.0, and
\* NaN (json.loads accepts the literal NaN).
MaxMag == Unit + 1
NaN == MaxMag + 1
Values == (-MaxMag..MaxMag) \cup {NaN}

Commands == UNION {[D -> Values] : D \in SUBSET Fields}

MIN_STEER == -Unit
MAX_STEER == Unit
MIN_THROTTLE == 0
MAX_THROTTLE == Unit
MIN_BRAKE == 0
MAX_BRAKE == Unit

\* Python's float comparisons: every comparison with NaN is False.
Lt(a, b) == a # NaN /\ b # NaN /\ a < b
Le(a, b) == a # NaN /\ b # NaN /\ a <= b

\* Python's min(a, b) and max(a, b): the first argument is kept unless the
\* second compares smaller (greater).
PyMin(a, b) == IF Lt(b, a) THEN b ELSE a
PyMax(a, b) == IF Lt(a, b) THEN b ELSE a

\* control.get(f, 0.0)
Get(c, f) == IF f \in DOMAIN c THEN c[f] ELSE 0

MinOf(f) == CASE f = "steer" -> MIN_STEER
              [] f = "throttle" -> MIN_THROTTLE
              [] f = "brake" -> MIN_BRAKE

MaxOf(f) == CASE f = "steer" -> MAX_STEER
              [] f = "throttle" -> MAX_THROTTLE
              [] f = "brake" -> MAX_BRAKE

\* MIN <= value <= MAX
InRange(f, v) == Le(MinOf(f), v) /\ Le(v, MaxOf(f))

\* Mutant of validate_control_command: the brake is not checked.
validate_no_brake(c) ==
    /\ InRange("steer", Get(c, "steer"))
    /\ InRange("throttle", Get(c, "throttle"))

\* validate_control_command: each of the three values, 0.0 when missing, is
\* within its range.  (A comparison that raises makes it return False; the
\* values modelled here are all numbers.)
validate_control_command(c) ==
    /\ InRange("steer", Get(c, "steer"))
    /\ InRange("throttle", Get(c, "throttle"))
    /\ InRange("brake", Get(c, "brake"))

\* max(MIN, min(MAX, value))
ClampValue(f, v) == PyMax(MinOf(f), PyMin(MaxOf(f), v))

\* Mutant of clamp_control_command: only the lower bound is applied,
\* max(MIN, value).
clamp_lower_only(c) ==
    [f \in DOMAIN c |-> PyMax(MinOf(f), c[f])]

\* clamp_control_command: a copy of the command in which each of the three
\* fields that is present is clamped; missing fields stay missing.
clamp_control_command(c) ==
    [f \in DOMAIN c |-> IF f \in Fields THEN ClampValue(f, c[f]) ELSE c[f]]

\* The command the functions are applied to is any command.
InitCommand ==
    /\ QuietReceiver
    /\ QuietTransport
    /\ QuietLoop
    /\ QuietControl
    /\ QuietSender
    /\ QuietPlanner
    /\ cmd \in Commands
    /\ cmdPc = "input"
    /\ cmdValid = FALSE
    /\ cmdClamped = EmptyCommand
    /\ cmdClamped2 = EmptyCommand

\* valid = validate_control_command(cmd)
ApplyValidate ==
    /\ cmdPc = "input"
    /\ cmdValid' = validate_control_command(cmd)
    /\ cmdPc' = "validated"
    /\ UNCHANGED <<cmd, cmdClamped, cmdClamped2>>
    /\ UNCHANGED notCommand

\* clamped = clamp_control_command(cmd)
ApplyClamp ==
    /\ cmdPc = "validated"
    /\ cmdClamped' = clamp_control_command(cmd)
    /\ cmdPc' = "clamped"
    /\ UNCHANGED <<cmd, cmdValid, cmdClamped2>>
    /\ UNCHANGED notCommand

\* clamped2 = clamp_control_command(clamped)
ApplyClampAgain ==
    /\ cmdPc = "clamped"
    /\ cmdClamped2' = clamp_control_command(cmdClamped)
    /\ cmdPc' = "clamped_twice"
    /\ UNCHANGED <<cmd, cmdValid, cmdClamped>>
    /\ UNCHANGED notCommand

NextCommand ==
    \/ ApplyValidate
    \/ ApplyClamp
    \/ ApplyClampAgain

SpecCommand == InitCommand /\ [][NextCommand]_vars

(***************************************************************************)
(* Claims about validate and clamp.                                        *)
(***************************************************************************)
\* C9: the clamped command carries the fields of the command, each within its
\* range; a field already within its range is unchanged whatever the other
\* fields are, one below (above) its range becomes the lower (upper) bound;
\* and clamping the clamped command changes nothing.
C9_ClampInRangeIdempotent ==
    /\ cmdPc \in {"clamped", "clamped_twice"} =>
         /\ DOMAIN cmdClamped = DOMAIN cmd
         /\ \A f \in DOMAIN cmd :
              /\ InRange(f, cmdClamped[f])
              /\ InRange(f, cmd[f]) => cmdClamped[f] = cmd[f]
              /\ Lt(cmd[f], MinOf(f)) => cmdClamped[f] = MinOf(f)
              /\ Lt(MaxOf(f), cmd[f]) => cmdClamped[f] = MaxOf(f)
    /\ cmdPc = "clamped_twice" => cmdClamped2 = cmdClamped

\* C9 witness: a command with one field inside, one below and one above its
\* range has been clamped twice.
C9_Witness ==
    /\ cmdPc = "clamped_twice"
    /\ DOMAIN cmd = Fields
    /\ InRange("steer", cmd["steer"])
    /\ Lt(cmd["throttle"], MIN_THROTTLE)
    /\ Lt(MAX_BRAKE, cmd["brake"])
    /\ cmdClamped # cmd

\* C10: validate(c) is true exactly when clamp(c) = c, also for commands that
\* lack some of the fields.
C10_ValidateIffClampFixes ==
    cmdPc \in {"clamped", "clamped_twice"} => (cmdValid <=> (cmdClamped = cmd))

\* C10 witness: a command without steer and throttle whose brake is out of
\* range is found invalid and changed by clamp.
C10_Witness ==
    /\ cmdPc = "clamped"
    /\ DOMAIN cmd = {"brake"}
    /\ ~InRange("brake", cmd["brake"])
    /\ ~cmdValid
    /\ cmdClamped # cmd

(***************************************************************************)
(* control_node.py: UDPControlSender.                                      *)
(***************************************************************************)
SEND_RETRY_ATTEMPTS == 3

\* The order in which json.dumps writes the fields of a command.
FieldOrder == <<"steer", "throttle", "brake">>

\* json.dumps(control).encode('utf-8'): the fields the command carries, each
\* with its value, in order.
RECURSIVE SerializeFrom(_, _)
SerializeFrom(c, i) ==
    IF i > Len(FieldOrder) THEN << >>
    ELSE (IF FieldOrder[i] \in DOMAIN c
            THEN << <<FieldOrder[i], c[FieldOrder[i]]>> >>
            ELSE << >>) \o SerializeFrom(c, i + 1)

Serialize(c) == SerializeFrom(c, 1)

\* len(control_bytes): the two braces and the fields.
BytesLen(b) == Len(b) + 2

\* The fields of a serialized command and the value of one of them, read as
\* control.get(f, 0.0) reads it.
BytesFields(b) == {b[i][1] : i \in 1..Len(b)}
BytesGet(b, f) ==
    IF f \in BytesFields(b)
      THEN b[CHOOSE i \in 1..Len(b) : b[i][1] = f][2]
      ELSE 0

\* UDPControlSender.__init__: the counters are zero and _create_socket has
\* run, with or without success.
InitSender ==
    /\ QuietReceiver
    /\ QuietTransport
    /\ QuietLoop
    /\ QuietControl
    /\ QuietCommand
    /\ QuietPlanner
    /\ SenderAtRest
    /\ sock \in {"open", "none"}
    /\ commandsSent = 0
    /\ sendFailures = 0
    /\ calls = 0

\* send_control_command(c) is called; a statistics dict read before is no
\* longer held.
SendCall ==
    /\ sendPc = "idle"
    /\ calls < MaxCalls
    /\ \E c \in Commands :
         /\ control' = c
         /\ inputCmd' = c
    /\ calls' = calls + 1
    /\ sockAtCall' = sock
    /\ sentAtCall' = commandsSent
    /\ failAtCall' = sendFailures
    /\ payload' = NoBytes
    /\ attempt' = 0
    /\ retVal' = "none"
    /\ recreates' = 0
    /\ attemptsMade' = 0
    /\ failedAttempts' = 0
    /\ lastSent' = SendtoWrote(0)
    /\ sleeps' = 0
    /\ handed' = NoBytes
    /\ sendPc' = "check_socket"
    /\ stats' = NoStats
    /\ UNCHANGED <<sock, commandsSent, sendFailures>>
    /\ UNCHANGED <<loopPc, skipped>>
    /\ UNCHANGED notSenderLoop

\* `if self.socket is None:` with the socket there.
SocketPresent ==
    /\ sendPc = "check_socket"
    /\ sock # "none"
    /\ sendPc' = "validate"
    /\ UNCHANGED <<sock, commandsSent, sendFailures, control, payload, attempt,
                   retVal, calls, inputCmd, sockAtCall, recreates, attemptsMade,
                   failedAttempts, lastSent, sleeps, sentAtCall, failAtCall, handed>>
    /\ UNCHANGED notSender

\* `if self.socket is None: self._create_socket()`; when the socket is still
\* None afterwards the call returns False.
SocketRecreate ==
    /\ sendPc = "check_socket"
    /\ sock = "none"
    /\ recreates' = recreates + 1
    /\ \E created \in BOOLEAN :
         IF created
           THEN /\ sock' = "open"
                /\ sendPc' = "validate"
                /\ retVal' = retVal
           ELSE /\ sock' = "none"
                /\ sendPc' = "returned"
                /\ retVal' = "false"
    /\ UNCHANGED <<commandsSent, sendFailures, control, payload, attempt,
                   calls, inputCmd, sockAtCall, attemptsMade,
                   failedAttempts, lastSent, sleeps, sentAtCall, failAtCall, handed>>
    /\ UNCHANGED notSender

\* Mutant of Checked: an invalid command goes out as it came.
CheckedNoClamp(c) == c

\* `if not validate_control_command(control): control = clamp_control_command(control)`
Checked(c) == IF validate_control_command(c) THEN c ELSE clamp_control_command(c)

ValidateAndClamp ==
    /\ sendPc = "validate"
    /\ control' = Checked(control)
    /\ sendPc' = "serialize"
    /\ UNCHANGED <<sock, commandsSent, sendFailures, payload, attempt,
                   retVal, calls, inputCmd, sockAtCall, recreates, attemptsMade,
                   failedAttempts, lastSent, sleeps, sentAtCall, failAtCall, handed>>
    /\ UNCHANGED notSender

\* `control_bytes = json.dumps(control).encode('utf-8')`, then the loop
\* `for attempt in range(SEND_RETRY_ATTEMPTS)` starts.  (json.dumps does not
\* fail on a dict of numbers.)
SerializeStep ==
    /\ sendPc = "serialize"
    /\ payload' = Serialize(control)
    /\ attempt' = 0
    /\ sendPc' = "sendto"
    /\ UNCHANGED <<sock, commandsSent, sendFailures, control,
                   retVal, calls, inputCmd, sockAtCall, recreates, attemptsMade,
                   failedAttempts, lastSent, sleeps, sentAtCall, failAtCall, handed>>
    /\ UNCHANGED notSender

\* Mutant of FullWrite: any write counts as a success.
FullWriteAny(r, b) == ~r.raised /\ r.n > 0

\* `bytes_sent == len(control_bytes)`, for a sendto that returned.
FullWrite(r, b) == ~r.raised /\ r.n = BytesLen(b)

\* What sendto can do with the bytes: raise, write them all, or write one
\* byte less.
SendtoResults(b) == {SendtoRaised, SendtoWrote(BytesLen(b)), SendtoWrote(BytesLen(b) - 1)}

\* One pass of the loop body up to the test of bytes_sent:
\* `bytes_sent = self.socket.sendto(control_bytes, ...)`; on a full write
\* `self.commands_sent += 1; return True`.
SendtoStep ==
    /\ sendPc = "sendto"
    /\ handed' = payload
    /\ attemptsMade' = attemptsMade + 1
    /\ \E r \in SendtoResults(payload) :
         /\ lastSent' = r
         /\ IF FullWrite(r, payload)
              THEN /\ commandsSent' = commandsSent + 1
                   /\ retVal' = "true"
                   /\ sendPc' = "returned"
                   /\ UNCHANGED failedAttempts
              ELSE /\ failedAttempts' = failedAttempts + 1
                   /\ sendPc' = "after_attempt"
                   /\ UNCHANGED <<commandsSent, retVal>>
    /\ UNCHANGED <<sock, sendFailures, control, payload, attempt,
                   calls, inputCmd, sockAtCall, recreates, sleeps, sentAtCall,
                   failAtCall>>
    /\ UNCHANGED notSender

\* `if attempt < SEND_RETRY_ATTEMPTS - 1:` after a failed attempt.
MoreAttempts(a) == a < SEND_RETRY_ATTEMPTS - 1

\* `time.sleep(RETRY_DELAY)` and the next pass of the loop.
RetrySleep ==
    /\ sendPc = "after_attempt"
    /\ MoreAttempts(attempt)
    /\ sleeps' = sleeps + 1
    /\ attempt' = attempt + 1
    /\ sendPc' = "sendto"
    /\ UNCHANGED <<sock, commandsSent, sendFailures, control, payload,
                   retVal, calls, inputCmd, sockAtCall, recreates, attemptsMade,
                   failedAttempts, lastSent, sentAtCall, failAtCall, handed>>
    /\ UNCHANGED notSender

\* Mutant of FailuresAfterGivingUp: every failed attempt is counted.
FailuresPerAttempt == sendFailures + failedAttempts

\* `self.send_failures += 1` after the loop.
FailuresAfterGivingUp == sendFailures + 1

\* The loop ends after its last pass: `self.send_failures += 1; return False`.
GiveUp ==
    /\ sendPc = "after_attempt"
    /\ ~MoreAttempts(attempt)
    /\ sendFailures' = FailuresAfterGivingUp
    /\ retVal' = "false"
    /\ sendPc' = "returned"
    /\ UNCHANGED <<sock, commandsSent, control, payload, attempt,
                   calls, inputCmd, sockAtCall, recreates, attemptsMade,
                   failedAttempts, lastSent, sleeps, sentAtCall, failAtCall, handed>>
    /\ UNCHANGED notSender

\* Forget of a call's history.
Forgotten ==
    /\ sendPc' = "idle"
    /\ control' = EmptyCommand
    /\ payload' = NoBytes
    /\ attempt' = 0
    /\ retVal' = "none"
    /\ inputCmd' = EmptyCommand
    /\ sockAtCall' = "open"
    /\ recreates' = 0
    /\ attemptsMade' = 0
    /\ failedAttempts' = 0
    /\ lastSent' = SendtoWrote(0)
    /\ sleeps' = 0
    /\ handed' = NoBytes
    /\ sentAtCall' = 0
    /\ failAtCall' = 0

\* main(): the caller reads the returned `success`, prints the outcome and
\* goes on with its loop; the locals of the call are gone.
CallerResumes ==
    /\ sendPc = "returned"
    /\ Forgotten
    /\ UNCHANGED <<sock, commandsSent, sendFailures, calls>>
    /\ UNCHANGED notSender

\* close(): the socket is closed and self.socket set to None.
Close ==
    /\ sendPc = "idle"
    /\ sock # "none"
    /\ sock' = "none"
    /\ UNCHANGED <<commandsSent, sendFailures, sendPc, control, payload, attempt,
                   retVal, calls, inputCmd, sockAtCall, recreates, attemptsMade,
                   failedAttempts, lastSent, sleeps, sentAtCall, failAtCall, handed>>
    /\ UNCHANGED notSender

\* Mutant of CountersAfterStatistics: reading the counters starts them anew.
CountersAfterStatisticsReset == [commands_sent |-> 0, send_failures |-> 0]

\* get_statistics only reads self.commands_sent and self.send_failures: the
\* counters after the call.
CountersAfterStatistics ==
    [commands_sent |-> commandsSent, send_failures |-> sendFailures]

\* get_statistics() is called between two send_control_command calls and
\* returns a dict with the two counters.
GetStatistics ==
    /\ sendPc = "idle"
    /\ stats' = <<[commands_sent |-> commandsSent, send_failures |-> sendFailures]>>
    /\ commandsSent' = CountersAfterStatistics.commands_sent
    /\ sendFailures' = CountersAfterStatistics.send_failures
    /\ UNCHANGED <<sock, sendPc, control, payload, attempt, retVal, calls, inputCmd,
                   sockAtCall, recreates, attemptsMade, failedAttempts, lastSent,
                   sleeps, sentAtCall, failAtCall, handed>>
    /\ UNCHANGED <<loopPc, skipped>>
    /\ UNCHANGED notSenderLoop

NextSender ==
    \/ SendCall
    \/ GetStatistics
    \/ SocketPresent
    \/ SocketRecreate
    \/ ValidateAndClamp
    \/ SerializeStep
    \/ SendtoStep
    \/ RetrySleep
    \/ GiveUp
    \/ CallerResumes
    \/ Close

SpecSender == InitSender /\ [][NextSender]_vars

(***************************************************************************)
(* Claims about the command transmitter.                                   *)
(***************************************************************************)
\* sendto was called by the current call.
Handed == attemptsMade >= 1

\* The socket was None when the call began and _create_socket failed.
RecreationFailed == sockAtCall = "none" /\ sock = "none"

\* C5: no command is rejected for an out-of-range field.  Every call that has
\* a socket hands bytes to sendto; the bytes carry the fields of the command,
\* each within its range, and they are the command itself when it is valid and
\* the clamped command when it is not.
C5_InvalidClampedAndSent ==
    /\ Handed =>
         /\ \A f \in Fields : InRange(f, BytesGet(handed, f))
         /\ BytesFields(handed) = DOMAIN inputCmd
         /\ handed = Serialize(IF validate_control_command(inputCmd)
                                 THEN inputCmd
                                 ELSE clamp_control_command(inputCmd))
    /\ (sendPc = "returned" /\ ~Handed) => RecreationFailed

\* C5 witness: a command whose three fields are all out of range was sent.
C5_Witness ==
    /\ sendPc = "returned"
    /\ retVal = "true"
    /\ DOMAIN inputCmd = Fields
    /\ \A f \in Fields : ~InRange(f, inputCmd[f])

\* C6: a call whose SEND_RETRY_ATTEMPTS attempts all failed returns False,
\* has added exactly 1 to send_failures and has left commands_sent alone.
C6_ExhaustionCountsOneFailure ==
    (sendPc = "returned" /\ failedAttempts = SEND_RETRY_ATTEMPTS) =>
        /\ retVal = "false"
        /\ sendFailures = failAtCall + 1
        /\ commandsSent = sentAtCall

\* C6 witness: the second call of a run has failed all its attempts, the last
\* one by a short write.
C6_Witness ==
    /\ sendPc = "returned"
    /\ failedAttempts = SEND_RETRY_ATTEMPTS
    /\ lastSent = SendtoWrote(BytesLen(handed) - 1)
    /\ calls = 2

\* A sendto that raised or wrote fewer bytes than the command has.
FailedSendto(r, b) == r.raised \/ r.n < BytesLen(b)

\* C7: a call makes at most SEND_RETRY_ATTEMPTS attempts; an attempt is made
\* only after all earlier ones failed, and a call that returns False after an
\* attempt has made them all; a raise or a short write is a failed attempt;
\* the call returns True at the first full write; there is one sleep between
\* two consecutive attempts and none after the last.
C7_BoundedRetries ==
    /\ attemptsMade <= SEND_RETRY_ATTEMPTS
    /\ attemptsMade - failedAttempts \in {0, 1}
    /\ attemptsMade > failedAttempts =>
         /\ sendPc = "returned"
         /\ retVal = "true"
         /\ lastSent = SendtoWrote(BytesLen(handed))
    /\ (Handed /\ FailedSendto(lastSent, handed)) => failedAttempts = attemptsMade
    /\ (sendPc = "returned" /\ retVal = "true") => attemptsMade = failedAttempts + 1
    /\ (sendPc = "returned" /\ retVal = "false" /\ Handed) =>
         failedAttempts = SEND_RETRY_ATTEMPTS
    /\ sendPc = "sendto" => sleeps = attemptsMade
    /\ (sendPc \in {"after_attempt", "returned"} /\ Handed) => sleeps = attemptsMade - 1

\* C7 witness: the third attempt wrote the whole command after two failed ones.
C7_Witness ==
    /\ sendPc = "returned"
    /\ retVal = "true"
    /\ attemptsMade = SEND_RETRY_ATTEMPTS
    /\ failedAttempts = SEND_RETRY_ATTEMPTS - 1
    /\ sleeps = SEND_RETRY_ATTEMPTS - 1

\* C8, as claimed: a call made while the socket is None makes exactly one
\* re-creation attempt, and when that fails it makes no transmit attempt,
\* returns False and a failure counter (send_failures) is incremented.
C8_RecreationFailureCounted ==
    /\ (sockAtCall = "none" /\ sendPc \notin {"idle", "check_socket"}) => recreates = 1
    /\ (sendPc = "returned" /\ RecreationFailed) =>
         /\ ~Handed
         /\ retVal = "false"
         /\ sendFailures = failAtCall + 1

(***************************************************************************)
(* Planner: planner_operator.py, Operator.  Lengths are whole metres;      *)
(* angles are thousandths of a radian; throttle and brake are tenths.      *)
(* One action is one on_event call.                                        *)
(***************************************************************************)
\* DEFAULT_ROUTE: the square the vehicle is driven around.
DEFAULT_ROUTE == << <<0, 0>>, <<50, 0>>, <<50, 50>>, <<0, 50>>, <<0, 0>> >>

\* len(self.waypoints)
RouteLen == Len(DEFAULT_ROUTE)

\* self.waypoints[i], i counted from 0 as in the code.
WaypointAt(i) == DEFAULT_ROUTE[i + 1]

LOOKAHEAD_DISTANCE == 5

WAYPOINT_REACHED_THRESHOLD == 2

\* 0.4, in tenths.
CONSTANT_THROTTLE == 4

CONSTANT_BRAKE == 0

\* The largest coordinate of the route.
RouteExtent ==
    LET coords == {DEFAULT_ROUTE[i][j] : i \in 1..RouteLen, j \in 1..2}
    IN  CHOOSE m \in coords : \A c \in coords : c <= m

\* A latitude or longitude that is not a number (a string, null).
NonNumeric == RouteExtent + 1

\* The positions a fix can carry: on the first (and last) waypoint, one metre
\* from the second, on the third and fourth, exactly the reached-threshold
\* away from the first (and so within it of none).
FixPositions == {<<0, 0>>, <<50, 1>>, <<50, 50>>, <<0, 50>>, <<2, 0>>}

\* The "heading" field of a record: absent, or a number of degrees.
FixHeadings == {[present |-> FALSE, degrees |-> 0], [present |-> TRUE, degrees |-> 90]}

\* calculate_distance, squared: sqrt is monotone and exact on the squares
\* compared below, so d < t is d*d < t*t and d >= t is d*d >= t*t.
Dist2(p, q) == (q[1] - p[1]) * (q[1] - p[1]) + (q[2] - p[2]) * (q[2] - p[2])

\* Mutant of Reached: a waypoint exactly the threshold away counts as reached.
ReachedInclusive(p, w) ==
    Dist2(p, w) <= WAYPOINT_REACHED_THRESHOLD * WAYPOINT_REACHED_THRESHOLD

\* distance < WAYPOINT_REACHED_THRESHOLD
Reached(p, w) == Dist2(p, w) < WAYPOINT_REACHED_THRESHOLD * WAYPOINT_REACHED_THRESHOLD

\* distance >= lookahead_distance * 0.8, with 0.8 = 4/5.
FarEnough(p, w) == 25 * Dist2(p, w) >= 16 * LOOKAHEAD_DISTANCE * LOOKAHEAD_DISTANCE

\* math.radians, to the thousandth of a radian below, for deg >= 0.
Radians(deg) == (deg * 314159) \div 18000

\* math.atan2(dy, dx) for a vector along an axis.
Atan2(dy, dx) ==
    CASE dy = 0 /\ dx >= 0 -> 0
      [] dy > 0 /\ dx = 0 -> Radians(90)
      [] dy = 0 /\ dx < 0 -> Radians(180)
      [] dy < 0 /\ dx = 0 -> 0 - Radians(90)

\* Mutant of Bearing: the bearing is taken from waypoint i back to i-1.
BearingReversed(i) ==
    Atan2(WaypointAt(i - 1)[2] - WaypointAt(i)[2],
          WaypointAt(i - 1)[1] - WaypointAt(i)[1])

\* The bearing from waypoint i-1 to waypoint i.
Bearing(i) ==
    Atan2(WaypointAt(i)[2] - WaypointAt(i - 1)[2],
          WaypointAt(i)[1] - WaypointAt(i - 1)[1])

\* waypoints[-1]: the position of the final waypoint.
LastWaypointIndex == RouteLen - 1

\* The waypoints from current_index on that are far enough from p.
LookaheadCandidates(p, current_index) ==
    {i \in current_index..(RouteLen - 1) : FarEnough(p, WaypointAt(i))}

\* Mutant of find_lookahead_point: the final waypoint is always taken.
find_lookahead_point_final(p, current_index) == RouteLen - 1

\* find_lookahead_point: the position of the lookahead point in the route.
find_lookahead_point(p, current_index) ==
    LET far == LookaheadCandidates(p, current_index)
    IN  IF far # {}
        THEN CHOOSE i \in far : \A j \in far : i <= j
        ELSE LastWaypointIndex

\* The positions find_lookahead_point reads self.waypoints at.
LookaheadIndexed(p, current_index) ==
    LET far == LookaheadCandidates(p, current_index)
    IN  IF far # {}
        THEN current_index..find_lookahead_point(p, current_index)
        ELSE (current_index..(RouteLen - 1)) \cup {LastWaypointIndex}

\* Mutant of NextIndex: every other waypoint is skipped.
NextIndexByTwo(i) == i + 2

\* Mutant of NextIndex: the route is driven in a loop.
NextIndexWrapped(i) == (i + 1) % RouteLen

\* self.current_waypoint_index += 1
NextIndex(i) == i + 1

\* Mutant of AllReached: the last waypoint is not waited for.
AllReachedEarly(i) == i >= RouteLen - 1

\* self.current_waypoint_index >= len(self.waypoints)
AllReached(i) == i >= RouteLen

\* Mutant of CompletedBranch: a completed route is started again.
CompletedBranchRestarts(i) == [index |-> 0, completed |-> FALSE]

\* `if self.path_completed: ... return`: the index and the flag a fix
\* leaves behind when the route was already completed.
CompletedBranch(i) == [index |-> i, completed |-> TRUE]

\* 2.89 m, in hundredths.
WHEELBASE == 289

\* An angle or a tangent is counted in 1/AngleScale (radians); a steering
\* value in 1/SteerScale.
AngleScale == 10000
SteerScale == 1000

\* max_steering_rad = 0.52, in 1/AngleScale.
MAX_STEERING_RAD == 5200

\* pi/2, in 1/AngleScale.
HalfPi == 15708

\* a / b for b > 0, rounded towards zero.
TruncDiv(a, b) == IF a >= 0 THEN a \div b ELSE 0 - ((0 - a) \div b)

\* math.cos and math.sin of a heading, for the headings that occur: the
\* multiples of a right angle.
HeadingCos(h) ==
    CASE h = 0 -> 1
      [] h = Radians(180) -> 0 - 1
      [] OTHER -> 0

HeadingSin(h) ==
    CASE h = Radians(90) -> 1
      [] h = 0 - Radians(90) -> 0 - 1
      [] OTHER -> 0

\* math.atan(x) for 0 <= x <= 1 by its series x - x^3/3 + x^5/5 - x^7/7 +
\* x^9/9: within 1/AngleScale up to tan(max_steering_rad), above the value
\* (by at most 0.09) beyond.
AtanSeries(x) ==
    LET x2 == (x * x) \div AngleScale
        x3 == (x2 * x) \div AngleScale
        x5 == (x3 * x2) \div AngleScale
        x7 == (x5 * x2) \div AngleScale
        x9 == (x7 * x2) \div AngleScale
    IN  x - (x3 \div 3) + (x5 \div 5) - (x7 \div 7) + (x9 \div 9)

\* math.atan(x): odd, and atan(x) = pi/2 - atan(1/x) for x > 1.
Atan(x) ==
    LET a == IF x >= 0 THEN x ELSE 0 - x
        r == IF a <= AngleScale THEN AtanSeries(a)
             ELSE HalfPi - AtanSeries((AngleScale * AngleScale) \div a)
    IN  IF x >= 0 THEN r ELSE 0 - r

\* The steering before the clamp, normalized_steering = steering_angle /
\* max_steering_rad.  sin(alpha) is sin(target_angle - heading) =
\* (dy cos(heading) - dx sin(heading)) / ld, so the argument of atan is
\* 2 * wheelbase * (dy cos(heading) - dx sin(heading)) / ld^2.
normalized_steering(p, heading, t) ==
    LET dx == t[1] - p[1]
        dy == t[2] - p[2]
        ld2 == dx * dx + dy * dy
        cross == dy * HeadingCos(heading) - dx * HeadingSin(heading)
        tangent == TruncDiv(2 * WHEELBASE * cross * (AngleScale \div 100), ld2)
    IN  TruncDiv(Atan(tangent) * SteerScale, MAX_STEERING_RAD)

\* Mutant of calculate_pure_pursuit_steering: the steering is not clamped.
calculate_pure_pursuit_steering_unclamped(p, heading, t) ==
    IF Dist2(p, t) = 0 THEN 0 ELSE normalized_steering(p, heading, t)

\* Mutant of calculate_pure_pursuit_steering: the heading error is taken
\* with the opposite sign.
calculate_pure_pursuit_steering_mirrored(p, heading, t) ==
    IF Dist2(p, t) = 0 THEN 0
    ELSE LET v == 0 - normalized_steering(p, heading, t)
         IN  IF v > SteerScale THEN SteerScale
             ELSE IF v < 0 - SteerScale THEN 0 - SteerScale ELSE v

\* calculate_pure_pursuit_steering(vehicle_position, vehicle_heading,
\* target_point, WHEELBASE), in 1/SteerScale: 0.0 when ld < 0.1 (on whole
\* metres: ld = 0), else max(-1.0, min(1.0, normalized_steering)).
calculate_pure_pursuit_steering(p, heading, t) ==
    IF Dist2(p, t) = 0 THEN 0
    ELSE LET v == normalized_steering(p, heading, t)
         IN  IF v > SteerScale THEN SteerScale
             ELSE IF v < 0 - SteerScale THEN 0 - SteerScale ELSE v

\* Mutant of StopCommand: the vehicle is left to coast.
StopCommandCoasting ==
    [kind |-> "stop", steer |-> 0, throttle |-> 0, brake |-> 0, steerArgs |-> << >>]

\* _send_stop_command: steer 0.0 (computed from nothing), throttle 0.0,
\* brake 1.0.
StopCommand ==
    [kind |-> "stop", steer |-> 0, throttle |-> 0, brake |-> 10, steerArgs |-> << >>]

\* The tracking command: steer is calculate_pure_pursuit_steering of the
\* position, the heading and the lookahead point (given by its position in
\* the route), throttle and brake are the configured constants.
TrackCommand(p, heading, target) ==
    [kind |-> "track",
     steer |-> calculate_pure_pursuit_steering(p, heading, WaypointAt(target)),
     throttle |-> CONSTANT_THROTTLE, brake |-> CONSTANT_BRAKE,
     steerArgs |-> <<p, heading, target>>]

\* Mutant of send_output: the record is sent twice.
send_output_twice(c) == <<c, c>>

\* send_output("control_cmd", pa.array([control_json])): the records one
\* call puts on the control_cmd output.
send_output(c) == <<c>>

\* The command as control_node.py reads it from the record (json.dumps here,
\* json.loads there, both exact), on the scale of the transmitter's values:
\* a value within [-1, 1] keeps its sign and its place within the range, a
\* value outside stays outside.
ToUnit(v, scale) ==
    IF v > scale THEN MaxMag
    ELSE IF v < 0 - scale THEN 0 - MaxMag
    ELSE TruncDiv(v * Unit, scale)

AsReceived(c) ==
    [f \in Fields |-> CASE f = "steer" -> ToUnit(c.steer, SteerScale)
                       [] f = "throttle" -> ToUnit(c.throttle, 10)
                       [] f = "brake" -> ToUnit(c.brake, 10)]

InitPlanner ==
    /\ QuietPlanner
    /\ QuietReceiver
    /\ QuietTransport
    /\ QuietCommand
    /\ QuietSender
    /\ QuietLoop
    /\ QuietControl

\* on_event with an INPUT event of id gnss_data whose record is well formed:
\* position p, heading field hd.
OnEventFix(p, hd) ==
    /\ Len(fixes) < RouteLen + MaxIdleFixes
    /\ \/ Len(fixes) - current_waypoint_index < MaxIdleFixes
       \/ /\ ~path_completed
          /\ current_waypoint_index < RouteLen
          /\ Reached(p, WaypointAt(current_waypoint_index))
    /\ LET heading1 == IF hd.present THEN Radians(hd.degrees) ELSE vehicle_heading
           atWaypoint == current_waypoint_index < RouteLen
           reached == atWaypoint /\ Reached(p, WaypointAt(current_waypoint_index))
           index1 == IF reached THEN NextIndex(current_waypoint_index)
                     ELSE current_waypoint_index
           finished == reached /\ AllReached(index1)
           between == index1 > 0 /\ index1 < RouteLen
           heading2 == IF between THEN Bearing(index1) ELSE heading1
           target == find_lookahead_point(p, index1)
       IN  /\ vehicle_position' = p
           /\ fixes' = Append(fixes, p)
           /\ lastEvent' = "fix"
           /\ lastHeading' = hd
           /\ IF path_completed THEN
                  /\ current_waypoint_index' = CompletedBranch(current_waypoint_index).index
                  /\ path_completed' = CompletedBranch(current_waypoint_index).completed
                  /\ vehicle_heading' = heading1
                  /\ emitted' = send_output(StopCommand)
                  /\ UNCHANGED <<total_commands_sent, indexed>>
              ELSE IF finished THEN
                  /\ current_waypoint_index' = index1
                  /\ path_completed' = TRUE
                  /\ vehicle_heading' = heading1
                  /\ emitted' = send_output(StopCommand)
                  /\ indexed' = indexed \cup {current_waypoint_index}
                  /\ UNCHANGED total_commands_sent
              ELSE
                  /\ current_waypoint_index' = index1
                  /\ vehicle_heading' = heading2
                  /\ emitted' = send_output(TrackCommand(p, heading2, target))
                  /\ total_commands_sent' = total_commands_sent + 1
                  /\ indexed' = indexed
                                \cup (IF atWaypoint THEN {current_waypoint_index} ELSE {})
                                \cup LookaheadIndexed(p, index1)
                                \cup (IF between THEN {index1 - 1, index1} ELSE {})
                  /\ UNCHANGED path_completed
    /\ UNCHANGED notPlanner

\* Mutant of EmittedOnException: the handler of the exception stops the
\* vehicle.
EmittedOnExceptionStop == send_output(StopCommand)

\* `except Exception as e:` prints the error and the traceback; nothing is
\* sent and nothing is raised again.
EmittedOnException == << >>

\* on_event with an INPUT event of id gnss_data whose record cannot be
\* decoded (as_py or json.loads raises, the message or its "data" is not a
\* record); `except Exception` swallows the exception before anything was
\* assigned.
OnEventUndecodable ==
    /\ lastEvent' = "malformed"
    /\ lastHeading' = [present |-> FALSE, degrees |-> 0]
    /\ emitted' = EmittedOnException
    /\ UNCHANGED <<current_waypoint_index, path_completed, vehicle_position,
                   vehicle_heading, total_commands_sent, fixes, indexed>>
    /\ UNCHANGED notPlanner

\* ... whose latitude and longitude are not numbers: they are assigned to
\* vehicle_position, a numeric heading is assigned too, and the formatting
\* of the position raises.
OnEventBadPosition(hd) ==
    /\ lastEvent' = "malformed"
    /\ lastHeading' = [present |-> FALSE, degrees |-> 0]
    /\ emitted' = EmittedOnException
    /\ vehicle_position' = <<NonNumeric, NonNumeric>>
    /\ vehicle_heading' = IF hd.present THEN Radians(hd.degrees) ELSE vehicle_heading
    /\ UNCHANGED <<current_waypoint_index, path_completed, total_commands_sent,
                   fixes, indexed>>
    /\ UNCHANGED notPlanner

\* ... whose heading is not a number: the position p is assigned and
\* math.radians raises.
OnEventBadHeading(p) ==
    /\ lastEvent' = "malformed"
    /\ lastHeading' = [present |-> FALSE, degrees |-> 0]
    /\ emitted' = EmittedOnException
    /\ vehicle_position' = p
    /\ UNCHANGED <<current_waypoint_index, path_completed, vehicle_heading,
                   total_commands_sent, fixes, indexed>>
    /\ UNCHANGED notPlanner

\* on_event with an event that is not an INPUT, or an INPUT of another id.
OnEventOther ==
    /\ lastEvent' = "other"
    /\ lastHeading' = [present |-> FALSE, degrees |-> 0]
    /\ emitted' = << >>
    /\ UNCHANGED <<current_waypoint_index, path_completed, vehicle_position,
                   vehicle_heading, total_commands_sent, fixes, indexed>>
    /\ UNCHANGED notPlanner

NextPlanner ==
    \/ \E p \in FixPositions, hd \in FixHeadings : OnEventFix(p, hd)
    \/ OnEventUndecodable
    \/ \E hd \in FixHeadings : OnEventBadPosition(hd)
    \/ \E p \in FixPositions : OnEventBadHeading(p)
    \/ OnEventOther

SpecPlanner == InitPlanner /\ [][NextPlanner]_vars

(***************************************************************************)
(* Planner claims.                                                         *)
(***************************************************************************)
\* C11: the planner's current_waypoint_index never decreases, whatever event
\* on_event is given: a well-formed fix, a malformed record, another event.
C11_IndexNeverDecreases ==
    [][current_waypoint_index' >= current_waypoint_index]_vars

\* The index has advanced twice, a record with a non-numeric position was
\* swallowed, and the last event was not a gnss_data input.
C11_Witness ==
    /\ current_waypoint_index >= 2
    /\ vehicle_position = <<NonNumeric, NonNumeric>>
    /\ lastEvent = "other"

\* C12: in every reachable state 0 <= current_waypoint_index <= len(route),
\* and the route is never indexed at a position >= len(route) (or < 0).
C12_IndexWithinRoute ==
    /\ current_waypoint_index >= 0
    /\ current_waypoint_index <= RouteLen
    /\ \A i \in indexed : i >= 0 /\ i < RouteLen

\* The index has reached len(route), after the lookahead scan ran off the
\* end of the route and fell back to the final waypoint.
C12_Witness ==
    /\ current_waypoint_index = RouteLen
    /\ \E i \in 1..Len(fixes) : fixes[i] = <<2, 0>> /\ i >= RouteLen
    /\ (RouteLen - 1) \in indexed

\* C13: once path_completed is true it stays true; no event clears it.
C13_CompletedIsAbsorbing ==
    [][path_completed => path_completed']_vars

\* A fix and then a malformed record were processed after the completion.
C13_Witness ==
    /\ path_completed
    /\ Len(fixes) > RouteLen
    /\ lastEvent = "malformed"

\* C14: from the fix that exhausts the route onward, every well-formed fix
\* makes the planner emit exactly the stop command (steer 0, throttle 0,
\* brake 1) and nothing else, and the index no longer changes.
C14_StopAfterCompletion ==
    /\ [](path_completed /\ lastEvent = "fix" =>
            emitted = << [kind |-> "stop", steer |-> 0, throttle |-> 0,
                          brake |-> 10, steerArgs |-> << >>] >>)
    /\ [][path_completed => current_waypoint_index' = current_waypoint_index]_vars

\* A fix was processed after the one that completed the route.
C14_Witness ==
    /\ path_completed
    /\ lastEvent = "fix"
    /\ Len(fixes) > RouteLen
    /\ \E i \in 1..(Len(fixes) - 1) :
          /\ i >= RouteLen
          /\ Dist2(fixes[i], WaypointAt(RouteLen - 1)) = 0

\* The vehicle at p is within the reached-threshold of the waypoint w.
WithinThreshold(p, w) ==
    Dist2(p, w) < WAYPOINT_REACHED_THRESHOLD * WAYPOINT_REACHED_THRESHOLD

\* Among the fixes h[from], h[from+1], ... there are fixes, one strictly
\* after the other, within the threshold of the waypoints j, j+1, ... up to
\* the last one, in this order.
RECURSIVE ReachedInOrder(_, _, _)
ReachedInOrder(h, j, from) ==
    IF j >= RouteLen THEN TRUE
    ELSE \E i \in from..Len(h) :
            /\ WithinThreshold(h[i], WaypointAt(j))
            /\ ReachedInOrder(h, j + 1, i + 1)

\* C15: over any sequence of fixes the planner is COMPLETED exactly from the
\* fix by which the vehicle has been within WAYPOINT_REACHED_THRESHOLD of
\* every waypoint of the route in route order, and never before.
C15_CompletedIffRouteReached ==
    path_completed <=> ReachedInOrder(fixes, 0, 1)

\* The route was completed although one fix, exactly the threshold away
\* from a waypoint, reached nothing.
C15_Witness ==
    /\ path_completed
    /\ \E i \in 1..Len(fixes) : fixes[i] = <<2, 0>>
    /\ Len(fixes) = RouteLen + 1
    /\ fixes[Len(fixes)] = <<0, 0>>

(***************************************************************************)
(* Transport listeners: receiver_node.py, udp_server_thread,               *)
(* tcp_server_thread and handle_lidar_client, with the sockets' outcomes.  *)
(* A listener that has a sample calls set_<kind> as in the receiver above. *)
(***************************************************************************)
\* The size of the length prefix: client_socket.recv(4), '>I'.
PrefixSize == 4

LIDAR_BUFFER_SIZE == 1024 * 1024

\* What a received datagram can be: a record of type gnss or imu, a record
\* of another type (or without type), JSON that is no record, or bytes that
\* are no JSON (or no UTF-8).
DatagramClasses == {"gnss", "imu", "other_type", "not_record", "undecodable"}

\* The receiver's variables the socket steps do not assign.
bufferState == <<data, updated, lock, pollIdx, localData, result, sinceTake, stored,
                 takeSnap, overwritten, returned, published>>

\* main() before the threads have run: the buffer is empty, the listener
\* threads are about to bind, no connection has been accepted.
InitTransport ==
    /\ data = [k \in Kinds |-> None]
    /\ updated = [k \in Kinds |-> FALSE]
    /\ lock = NoHolder
    /\ pc = [t \in Threads |-> IF t = MainThread THEN "wait_event"
                               ELSE IF t = UdpThread THEN "bind" ELSE "unborn"]
    /\ argKind = [t \in Listeners |-> "lidar"]
    /\ argVal = [t \in Listeners |-> None]
    /\ pollIdx = 1
    /\ localData = None
    /\ result = None
    /\ nextId = 1
    /\ sinceTake = [k \in Kinds |-> <<>>]
    /\ stored = [k \in Kinds |-> <<>>]
    /\ takeSnap = <<>>
    /\ overwritten = [k \in Kinds |-> {}]
    /\ returned = [k \in Kinds |-> <<>>]
    /\ published = [k \in Kinds |-> <<>>]
    /\ srvPc = "bind"
    /\ dgram = NoDatagram
    /\ msgLen = [h \in Handlers |-> 0]
    /\ got = [h \in Handlers |-> 0]
    /\ received_data = [h \in Handlers |-> << >>]
    /\ dropped = FALSE
    /\ stalled = {}
    /\ QuietCommand
    /\ QuietSender
    /\ QuietLoop
    /\ QuietControl
    /\ QuietPlanner

\* udp_server_thread: sock.bind.  A bind that raises is caught by the outer
\* `except Exception` ("Fatal error"); the finally block closes the socket
\* and the thread function returns.
UdpBind(ok) ==
    /\ pc[UdpThread] = "bind"
    /\ pc' = [pc EXCEPT ![UdpThread] = IF ok THEN "recv" ELSE "terminated"]
    /\ UNCHANGED <<argKind, argVal, nextId, bufferState, varsTransport>>
    /\ UNCHANGED notTransport

\* udp_server_thread: sock.recvfrom returns a datagram of class c.
UdpRecvfrom(c) ==
    /\ pc[UdpThread] = "recv"
    /\ UdpThread \notin stalled
    /\ IF c \in {"gnss", "imu"}
       THEN /\ nextId <= MaxSamples
            /\ dgram' = [class |-> c, id |-> nextId]
            /\ nextId' = nextId + 1
       ELSE /\ dgram' = [class |-> c, id |-> None]
            /\ UNCHANGED nextId
    /\ pc' = [pc EXCEPT ![UdpThread] = "decode"]
    /\ UNCHANGED <<argKind, argVal, bufferState, srvPc, msgLen, got, received_data, dropped, stalled>>
    /\ UNCHANGED notTransport

\* udp_server_thread: sock.recvfrom raises; "Socket error" is printed and
\* time.sleep(1) is called.
UdpRecvfromFails ==
    /\ pc[UdpThread] = "recv"
    /\ UdpThread \notin stalled
    /\ pc' = [pc EXCEPT ![UdpThread] = "backoff"]
    /\ UNCHANGED <<argKind, argVal, nextId, bufferState, varsTransport>>
    /\ UNCHANGED notTransport

\* udp_server_thread: time.sleep(1) returns, the loop calls recvfrom again.
UdpBackoff ==
    /\ pc[UdpThread] = "backoff"
    /\ pc' = [pc EXCEPT ![UdpThread] = "recv"]
    /\ UNCHANGED <<argKind, argVal, nextId, bufferState, varsTransport>>
    /\ UNCHANGED notTransport

\* Mutant of StoreKind: a record of another type is stored as a gnss record.
StoreKindDefaultsToGnss(c) ==
    IF c \in {"gnss", "imu"} THEN c
    ELSE IF c = "other_type" THEN "gnss" ELSE "drop"

\* Mutant of StoreKind: the two setters are exchanged.
StoreKindExchanged(c) ==
    IF c = "gnss" THEN "imu" ELSE IF c = "imu" THEN "gnss" ELSE "drop"

\* json.loads(data.decode('utf-8')), message.get("type", "unknown") and the
\* if / elif / else on it: the kind the datagram is stored under, or "drop"
\* (unknown type; AttributeError of a non-record and JSONDecodeError or
\* UnicodeDecodeError, caught by the inner except clauses).
StoreKind(c) == IF c \in {"gnss", "imu"} THEN c ELSE "drop"

\* udp_server_thread: the inner try block on the datagram received.  A
\* datagram that is dropped is gone; one that is stored is `message` until
\* the next one is received.
UdpDecode ==
    /\ pc[UdpThread] = "decode"
    /\ IF StoreKind(dgram.class) = "drop"
       THEN /\ pc' = [pc EXCEPT ![UdpThread] = "recv"]
            /\ dropped' = TRUE
            /\ dgram' = NoDatagram
            /\ UNCHANGED <<argKind, argVal>>
       ELSE /\ pc' = [pc EXCEPT ![UdpThread] = "set_acquire"]
            /\ argKind' = [argKind EXCEPT ![UdpThread] = StoreKind(dgram.class)]
            /\ argVal' = [argVal EXCEPT ![UdpThread] = dgram.id]
            /\ UNCHANGED <<dropped, dgram>>
    /\ UNCHANGED <<nextId, bufferState, srvPc, msgLen, got, received_data, stalled>>
    /\ UNCHANGED notTransport

\* tcp_server_thread: server_sock.bind and listen.  As in udp_server_thread
\* a bind or listen that raises ends the thread.
TcpBind(ok) ==
    /\ srvPc = "bind"
    /\ srvPc' = IF ok THEN "accept" ELSE "terminated"
    /\ UNCHANGED <<varsReceiver, dgram, msgLen, got, received_data, dropped, stalled>>
    /\ UNCHANGED notTransport

\* Mutant of AcceptReady: the connection is handled by the accepting thread
\* itself, which accepts again when the handling is over.
AcceptReadyWhenIdle == srvPc = "accept" /\ \A h \in Handlers : pc[h] \in {"unborn", "terminated"}

\* tcp_server_thread is in server_sock.accept(): the handling of an accepted
\* connection was given to a thread of its own.
AcceptReady == srvPc = "accept"

\* The handler thread the next accepted connection gets.
NextHandler == IF pc["tcp1"] = "unborn" THEN "tcp1" ELSE "tcp2"

\* tcp_server_thread: accept returns a connection; a daemon thread running
\* handle_lidar_client is started for it.
TcpAccept ==
    /\ AcceptReady
    /\ pc[NextHandler] = "unborn"
    /\ pc' = [pc EXCEPT ![NextHandler] = "recv"]
    /\ UNCHANGED <<argKind, argVal, nextId, bufferState, varsTransport>>
    /\ UNCHANGED notTransport

\* tcp_server_thread: accept (or the start of the thread) raises; "Error
\* accepting connection" is printed and time.sleep(1) is called.
TcpAcceptFails ==
    /\ AcceptReady
    /\ srvPc' = "backoff"
    /\ UNCHANGED <<varsReceiver, dgram, msgLen, got, received_data, dropped, stalled>>
    /\ UNCHANGED notTransport

\* tcp_server_thread: time.sleep(1) returns, the loop calls accept again.
TcpBackoff ==
    /\ srvPc = "backoff"
    /\ srvPc' = "accept"
    /\ UNCHANGED <<varsReceiver, dgram, msgLen, got, received_data, dropped, stalled>>
    /\ UNCHANGED notTransport

\* min(remaining, LIDAR_BUFFER_SIZE)
MinOfTwo(a, b) == IF a <= b THEN a ELSE b

\* handle_lidar_client: length_data = client_socket.recv(4) returns n bytes
\* (none when the client has closed); a full prefix announces len bytes.
\* With fewer than 4 bytes the loop is left and the finally block closes the
\* connection; with len = 0 the payload loop is skipped.
HandlerRecvPrefix(h, n, len) ==
    /\ pc[h] = "recv"
    /\ h \notin stalled
    /\ IF n < PrefixSize
       THEN /\ pc' = [pc EXCEPT ![h] = "terminated"]
            /\ UNCHANGED <<argKind, argVal, nextId, msgLen, got, received_data>>
       ELSE /\ nextId <= MaxSamples
            /\ msgLen' = [msgLen EXCEPT ![h] = len]
            /\ got' = [got EXCEPT ![h] = 0]
            /\ received_data' = [received_data EXCEPT ![h] = << >>]
            /\ argKind' = [argKind EXCEPT ![h] = "lidar"]
            /\ argVal' = [argVal EXCEPT ![h] = nextId]
            /\ nextId' = nextId + 1
            /\ pc' = [pc EXCEPT ![h] = IF len > 0 THEN "recv_payload"
                                      ELSE "set_acquire"]
    /\ UNCHANGED <<bufferState, srvPc, dgram, dropped, stalled>>
    /\ UNCHANGED notTransport

\* Mutant of AfterPayloadClose: the payload loop is left with `break`, and
\* what was received is stored.
AfterPayloadCloseStores == "set_acquire"

\* `if not chunk: ... return`: where handle_lidar_client goes when the
\* connection is closed inside a payload.
AfterPayloadClose == "terminated"

\* The next n bytes of the stream of connection h: a byte is named by its
\* connection, its message and its place in the message.
Chunk(h, n) == [i \in 1..n |-> <<h, argVal[h], got[h] + i>>]

\* Mutant of Assembled: received_data is one buffer shared by the handlers.
AssembledShared(h, chunk) == [g \in Handlers |-> received_data[g] \o chunk]

\* `received_data += chunk` on the handler's local received_data.
Assembled(h, chunk) == [received_data EXCEPT ![h] = @ \o chunk]

\* handle_lidar_client: chunk = client_socket.recv(min(remaining,
\* LIDAR_BUFFER_SIZE)) returns n bytes, none when the client has closed.
HandlerRecvPayload(h, n) ==
    /\ pc[h] = "recv_payload"
    /\ h \notin stalled
    /\ n <= MinOfTwo(msgLen[h] - got[h], LIDAR_BUFFER_SIZE)
    /\ IF n = 0
       THEN /\ pc' = [pc EXCEPT ![h] = AfterPayloadClose]
            /\ UNCHANGED <<got, received_data>>
       ELSE /\ got' = [got EXCEPT ![h] = got[h] + n]
            /\ received_data' = Assembled(h, Chunk(h, n))
            /\ pc' = [pc EXCEPT ![h] = IF msgLen[h] - (got[h] + n) > 0
                                      THEN "recv_payload" ELSE "set_acquire"]
    /\ UNCHANGED <<argKind, argVal, nextId, bufferState, srvPc, dgram, msgLen, dropped, stalled>>
    /\ UNCHANGED notTransport

\* handle_lidar_client: a recv raises (the connection was reset); the
\* `except Exception` prints and the finally block closes the connection.
HandlerRecvFails(h) ==
    /\ pc[h] \in {"recv", "recv_payload"}
    /\ h \notin stalled
    /\ pc' = [pc EXCEPT ![h] = "terminated"]
    /\ UNCHANGED <<argKind, argVal, nextId, bufferState, varsTransport>>
    /\ UNCHANGED notTransport

NextTransport ==
    \/ \E ok \in BOOLEAN : UdpBind(ok)
    \/ \E c \in DatagramClasses : UdpRecvfrom(c)
    \/ UdpRecvfromFails
    \/ UdpBackoff
    \/ UdpDecode
    \/ \E ok \in BOOLEAN : TcpBind(ok)
    \/ TcpAccept
    \/ TcpAcceptFails
    \/ TcpBackoff
    \/ \E h \in Handlers, n \in 0..PrefixSize :
          \E len \in (IF n < PrefixSize THEN {0} ELSE 0..MaxLen) :
             HandlerRecvPrefix(h, n, len)
    \/ \E h \in Handlers, n \in 0..MaxLen : HandlerRecvPayload(h, n)
    \/ \E h \in Handlers : HandlerRecvFails(h)
    \/ \E t \in Listeners : SetAcquire(t) \/ SetData(t) \/ SetFlag(t) \/ SetRelease(t)

\* The listener threads alone: DORA delivers no event to main(), which
\* stays in `for event in node` and takes nothing out of the buffer.
SpecTransport == InitTransport /\ [][NextTransport]_vars

(***************************************************************************)
(* Claims about the transport listeners.                                   *)
(***************************************************************************)
\* Handler h is inside set_lidar.
Storing(h) == pc[h] \in {"set_acquire", "set_data", "set_flag", "set_release"}

\* Handler h has ended inside a payload: fewer bytes than announced came.
Truncated(h) == pc[h] = "terminated" /\ got[h] < msgLen[h]

\* C16: a stream client that announces L bytes and closes after fewer leaves
\* every slot and flag unchanged and ends only its own handler (the other
\* threads stay where they are); every LiDAR sample handed to set_lidar has
\* exactly the announced length; and after a handler has ended the listener
\* still accepts the next connection.
C16_TruncatedMessageNotStored ==
    /\ [](\A h \in Handlers : Storing(h) => got[h] = msgLen[h])
    /\ [](\A h \in Handlers :
            pc[h] = "terminated" /\ srvPc = "accept" /\ pc[NextHandler] = "unborn"
            => ENABLED TcpAccept)
    /\ [][\A h \in Handlers :
            (/\ pc[h] = "recv_payload"
             /\ pc'[h] # "recv_payload"
             /\ got'[h] = got[h])
            => /\ pc'[h] = "terminated"
               /\ data' = data
               /\ updated' = updated
               /\ srvPc' = srvPc
               /\ \A t \in Threads \ {h} : pc'[t] = pc[t]]_vars

\* The first connection ended inside a payload, and a message of the
\* connection accepted next, begun later, is in the lidar slot, whole.
C16_Witness ==
    /\ Truncated("tcp1")
    /\ pc["tcp2"] = "set_release"
    /\ argVal["tcp2"] > argVal["tcp1"]
    /\ data["lidar"] = argVal["tcp2"]
    /\ updated["lidar"]
    /\ got["tcp2"] = msgLen["tcp2"]
    /\ msgLen["tcp2"] = MaxLen

\* Handler h is blocked in a recv: its client sends nothing.
Stalled(h) == pc[h] \in {"recv", "recv_payload"}

\* C17: connections are handled independently.  While a handler is stalled
\* it holds no lock, the listener can accept the next connection, and every
\* other handler can go on reading and storing its message.
C17_StalledHandlerBlocksNobody ==
    \A h \in Handlers :
        Stalled(h) =>
            /\ lock # h
            /\ (srvPc = "accept" /\ pc[NextHandler] = "unborn" => ENABLED TcpAccept)
            /\ \A o \in Handlers \ {h} :
                 /\ (pc[o] = "recv" /\ nextId <= MaxSamples
                        => ENABLED HandlerRecvPrefix(o, PrefixSize, 1))
                 /\ (pc[o] = "recv_payload" => ENABLED HandlerRecvPayload(o, 1))
                 /\ (pc[o] = "set_acquire" /\ lock = NoHolder => ENABLED SetAcquire(o))
                 /\ (pc[o] = "set_data" => ENABLED SetData(o))
                 /\ (pc[o] = "set_flag" => ENABLED SetFlag(o))
                 /\ (pc[o] = "set_release" => ENABLED SetRelease(o))

\* The first connection is stalled inside a payload, and a message of the
\* second connection, begun later, is in the lidar slot.
C17_Witness ==
    /\ pc["tcp1"] = "recv_payload"
    /\ got["tcp1"] < msgLen["tcp1"]
    /\ pc["tcp2"] = "set_release"
    /\ argVal["tcp2"] > argVal["tcp1"]
    /\ data["lidar"] = argVal["tcp2"]
    /\ updated["lidar"]

\* C18: a datagram that cannot be decoded, decodes to something that is no
\* record, or has a type other than gnss and imu is dropped: no slot and no
\* flag changes, the loop goes back to its receive (it does not end), and a
\* valid datagram can be received after it.
C18_BadDatagramDropped ==
    /\ [][(/\ pc[UdpThread] = "decode"
           /\ dgram.class \notin {"gnss", "imu"}
           /\ pc'[UdpThread] # "decode")
          => /\ pc'[UdpThread] = "recv"
             /\ data' = data
             /\ updated' = updated
             /\ argVal' = argVal]_vars
    /\ [](dropped /\ pc[UdpThread] = "recv" /\ nextId <= MaxSamples
            => ENABLED UdpRecvfrom("gnss"))

\* A datagram was dropped, and a gnss record received after it is stored.
C18_Witness ==
    /\ dropped
    /\ pc[UdpThread] = "set_release"
    /\ dgram.class = "gnss"
    /\ data["gnss"] = dgram.id
    /\ updated["gnss"]

\* C19: a decoded gnss datagram is stored whole in the gnss slot and sets
\* only the gnss flag, an imu datagram likewise; the steps of the datagram
\* listener change no slot and no flag of another kind.
C19_DatagramStoredUnderItsKind ==
    /\ [](pc[UdpThread] = "set_release"
            => /\ dgram.class \in {"gnss", "imu"}
               /\ data[dgram.class] = dgram.id
               /\ updated[dgram.class])
    /\ [][pc'[UdpThread] # pc[UdpThread]
          => \A k \in Kinds :
               /\ data'[k] # data[k] => k = dgram.class /\ data'[k] = dgram.id
               /\ updated'[k] # updated[k] => k = dgram.class /\ updated'[k]]_vars

\* An imu record is stored while the gnss slot holds an earlier gnss record
\* and the lidar slot a lidar sample, both untouched.
C19_Witness ==
    /\ pc[UdpThread] = "set_release"
    /\ dgram.class = "imu"
    /\ data["imu"] = dgram.id
    /\ updated["gnss"]
    /\ data["gnss"] # None
    /\ data["gnss"] < dgram.id

\* C20: a transport listener never exits: after any socket-level error, at
\* bind, receive or accept, it backs off and retries, and its thread never
\* reaches a terminated state.
C20_ListenerNeverExits ==
    /\ pc[UdpThread] # "terminated"
    /\ srvPc # "terminated"

(***************************************************************************)
(* Stalled peers.  The sockets of udp_server_thread and handle_lidar_client *)
(* are used as socket.socket() returns them: no settimeout is called, so a  *)
(* recvfrom or recv returns only when something arrives, the peer closes or *)
(* the socket fails.                                                        *)
(***************************************************************************)
\* The pcs at which a listener thread is inside recvfrom or recv.
ReadPcs == {"recv", "recv_payload"}

\* The peer of listener thread t stalls for good while t is in a read:
\* from now on it sends nothing and closes nothing, and nothing fails.
PeerStalls(t) ==
    /\ pc[t] \in ReadPcs
    /\ t \notin stalled
    /\ stalled' = stalled \cup {t}
    /\ UNCHANGED <<varsReceiver, srvPc, dgram, msgLen, got, received_data, dropped>>
    /\ UNCHANGED notTransport

NextStalled ==
    \/ NextTransport
    \/ \E t \in Listeners : PeerStalls(t)

SpecStalled == InitTransport /\ [][NextStalled]_vars

\* The read thread t is in returns: with a datagram, a prefix or a chunk, on
\* the peer's close, or with an exception.
ReadReturns(t) ==
    \/ /\ t = UdpThread
       /\ \/ \E c \in DatagramClasses : UdpRecvfrom(c)
          \/ UdpRecvfromFails
    \/ /\ t \in Handlers
       /\ \/ \E n \in 0..PrefixSize, len \in 0..MaxLen : HandlerRecvPrefix(t, n, len)
          \/ \E n \in 0..MaxLen : HandlerRecvPayload(t, n)
          \/ HandlerRecvFails(t)

\* C21: every socket read in a listener or connection handler has a bounded
\* wait: a thread inside a read is never blocked for good, the read returns
\* also when the peer has stalled.
C21_ReadsHaveBoundedWait ==
    \A t \in Listeners : pc[t] \in ReadPcs => ENABLED ReadReturns(t)

(***************************************************************************)
(* Claims about the transmitter's counters and its event loop.             *)
(***************************************************************************)
\* C23: commands_sent and send_failures never decrease over any sequence of
\* send_control_command, get_statistics and close calls, and get_statistics
\* returns the two counters and changes neither.
C23_CountersMonotone ==
    [][/\ commandsSent' >= commandsSent
       /\ sendFailures' >= sendFailures
       /\ (stats' # stats /\ stats' # NoStats) =>
             /\ commandsSent' = commandsSent
             /\ sendFailures' = sendFailures
             /\ stats'[1].commands_sent = commandsSent
             /\ stats'[1].send_failures = sendFailures]_vars

\* After a command that was sent, one that failed and a close, get_statistics
\* has returned both counters at 1.
C23_Witness ==
    /\ sock = "none"
    /\ commandsSent = 1
    /\ sendFailures = 1
    /\ stats = <<[commands_sent |-> 1, send_failures |-> 1]>>

(***************************************************************************)
(* control_node.py, main(): the event loop around the transmitter.  An     *)
(* event is a control_cmd record that decodes to a command (the command    *)
(* goes to send_control_command), a control_cmd record that does not       *)
(* (json.loads raises, or a value cannot be printed as a number), an input *)
(* with another id, or an event of another type.  Every `except` inside    *)
(* the loop body prints and falls through to the statistics check; the     *)
(* loop ends when the event stream ends or on KeyboardInterrupt, and the   *)
(* `finally` closes the transmitter.                                       *)
(***************************************************************************)
InitControlLoop == InitSender

\* Mutant of LoopAfterSend: a command that could not be sent ends the loop.
LoopAfterSendFatal(ret) == IF ret = "false" THEN "crashed" ELSE "running"

\* `if success: print(...) else: print(...)`: whatever send_control_command
\* returned, the loop goes on.
LoopAfterSend(ret) == "running"

\* `except json.JSONDecodeError` and `except Exception` inside the loop body:
\* the error is printed and the loop goes on.
LoopAfterBadRecord == "running"

\* An INPUT event with id control_cmd whose record decodes to a command:
\* send_control_command(control_command) is called.
LoopControlCmd ==
    /\ loopPc = "running"
    /\ SendCall

\* send_control_command returned; `success` is read and printed.
LoopResumes ==
    /\ loopPc = "running"
    /\ sendPc = "returned"
    /\ Forgotten
    /\ loopPc' = LoopAfterSend(retVal)
    /\ UNCHANGED <<sock, commandsSent, sendFailures, calls, skipped, stats>>
    /\ UNCHANGED notSenderLoop

\* An INPUT event with id control_cmd whose record does not decode
\* (json.JSONDecodeError, or another exception before the send).
LoopUndecodable ==
    /\ loopPc = "running"
    /\ sendPc = "idle"
    /\ ~skipped
    /\ skipped' = TRUE
    /\ loopPc' = LoopAfterBadRecord
    /\ UNCHANGED <<stats, varsSender>>
    /\ UNCHANGED notSenderLoop

\* An INPUT event with another id ("unexpected input" is printed), or an
\* event of another type: nothing is sent.
LoopUnexpectedInput ==
    /\ loopPc = "running"
    /\ sendPc = "idle"
    /\ ~skipped
    /\ skipped' = TRUE
    /\ UNCHANGED <<loopPc, stats, varsSender>>
    /\ UNCHANGED notSenderLoop

\* The periodic statistics print at the end of a loop pass.
LoopStatistics ==
    /\ loopPc = "running"
    /\ GetStatistics

\* KeyboardInterrupt or the end of the event stream between two events, then
\* `finally: control_sender.close()`.
LoopShutdown ==
    /\ loopPc = "running"
    /\ sendPc = "idle"
    /\ loopPc' = "shutdown"
    /\ sock' = "none"
    /\ UNCHANGED <<commandsSent, sendFailures, sendPc, control, payload, attempt,
                   retVal, calls, inputCmd, sockAtCall, recreates, attemptsMade,
                   failedAttempts, lastSent, sleeps, sentAtCall, failAtCall, handed>>
    /\ UNCHANGED <<skipped, stats>>
    /\ UNCHANGED notSenderLoop

NextControlLoop ==
    \/ LoopControlCmd
    \/ SocketPresent
    \/ SocketRecreate
    \/ ValidateAndClamp
    \/ SerializeStep
    \/ SendtoStep
    \/ RetrySleep
    \/ GiveUp
    \/ LoopResumes
    \/ LoopUndecodable
    \/ LoopUnexpectedInput
    \/ LoopStatistics
    \/ LoopShutdown

SpecControlLoop == InitControlLoop /\ [][NextControlLoop]_vars

\* C22: a failed transmission, an undecodable control_cmd record or an
\* unexpected input id never ends the event loop: the loop is still running
\* afterwards, the next control_cmd event is handed to send_control_command,
\* and a call made with the socket there reaches sendto.
C22_LoopSurvivesErrors ==
    /\ loopPc \in {"running", "shutdown"}
    /\ (loopPc = "shutdown") => sendPc = "idle"
    /\ (loopPc = "running" /\ sendPc = "idle" /\ calls < MaxCalls)
          => ENABLED LoopControlCmd
    /\ (sendPc = "returned" /\ sockAtCall = "open") => attemptsMade >= 1

\* A first command failed after all attempts, an event was skipped, and the
\* second command has reached sendto with the loop still running.
C22_Witness ==
    /\ loopPc = "running"
    /\ skipped
    /\ sendFailures = 1
    /\ calls = 2
    /\ attemptsMade >= 1

(***************************************************************************)
(* vehicle_controller.py, PIDController.  Numbers are integers: a gain is  *)
(* counted in hundredths, a time step dt in twentieths of a second (the    *)
(* default dt = 0.05 is 1), a setpoint, a measured value and an error in   *)
(* whole units, the integral in twentieths and an output in 1/2000.  With  *)
(* these units every product and quotient of compute is exact; rounding of *)
(* the floats is not modelled.  A float NaN is the number PidNaN: it       *)
(* absorbs every arithmetic operation and fails every comparison.          *)
(***************************************************************************)
GainScale == 100
DtScale == 20
OutputScale == GainScale * DtScale
PidNaN == OutputScale * OutputScale

\* The default `dt: float = 0.05`.
DefaultDt == 1

FAdd(a, b) == IF a = PidNaN \/ b = PidNaN THEN PidNaN ELSE a + b
FSub(a, b) == IF a = PidNaN \/ b = PidNaN THEN PidNaN ELSE a - b
FMul(a, b) == IF a = PidNaN \/ b = PidNaN THEN PidNaN ELSE a * b

\* x / dt for dt > 0, dt a divisor of DtScale.
FDivDt(x, dt) == IF x = PidNaN THEN PidNaN ELSE x * (DtScale \div dt)

\* Python's comparisons, min(a, b) and max(a, b) on floats.
FGt(a, b) == a # PidNaN /\ b # PidNaN /\ a > b
FMin(a, b) == IF FGt(a, b) THEN b ELSE a
FMax(a, b) == IF FGt(b, a) THEN b ELSE a

\* Mutant of compute: the derivative is taken for every dt, as the plain
\* difference of the errors when dt <= 0.
computeDerivativeAlways(c, setpoint, measured_value, dt) ==
    LET error == FSub(setpoint, measured_value)
        integral == FAdd(c.integral, FMul(error, dt))
        derivative == IF dt > 0 THEN FDivDt(FSub(error, c.previous_error), dt)
                                ELSE FSub(error, c.previous_error)
    IN  [state |-> [c EXCEPT !.integral = integral, !.previous_error = error],
         output |-> FAdd(FAdd(FMul(c.kp * DtScale, error), FMul(c.ki, integral)),
                         FMul(c.kd * DtScale, derivative))]

\* Mutant of compute: the integral holds the last term only.
computeForgetful(c, setpoint, measured_value, dt) ==
    LET error == FSub(setpoint, measured_value)
        integral == FMul(error, dt)
        derivative == IF dt > 0 THEN FDivDt(FSub(error, c.previous_error), dt)
                                ELSE 0
    IN  [state |-> [c EXCEPT !.integral = integral, !.previous_error = error],
         output |-> FAdd(FAdd(FMul(c.kp * DtScale, error), FMul(c.ki, integral)),
                         FMul(c.kd * DtScale, derivative))]

\* PIDController.compute(setpoint, measured_value, dt): the controller after
\* the call and the output returned.
compute(c, setpoint, measured_value, dt) ==
    LET error == FSub(setpoint, measured_value)
        integral == FAdd(c.integral, FMul(error, dt))
        derivative == IF dt > 0 THEN FDivDt(FSub(error, c.previous_error), dt)
                                ELSE 0
    IN  [state |-> [c EXCEPT !.integral = integral, !.previous_error = error],
         output |-> FAdd(FAdd(FMul(c.kp * DtScale, error), FMul(c.ki, integral)),
                         FMul(c.kd * DtScale, derivative))]

\* Mutant of reset: the integral is kept.
resetKeepsIntegral(c) == [c EXCEPT !.previous_error = 0]

\* PIDController.reset().
reset(c) == [c EXCEPT !.previous_error = 0, !.integral = 0]

\* The gains of the three controllers that vehicle_controller.py constructs
\* or defaults to: (kp, ki, kd) in hundredths.
GainSets == {<<100, 10, 1>>, <<50, 10, 5>>, <<100, 0, 10>>}

\* The arguments of compute that are tried.
Setpoints == {0, 1, 5, PidNaN}
MeasuredValues == {0, 1, 5}
Dts == {-1, 0, 1, 2}

InitPid ==
    /\ QuietReceiver
    /\ BufferInit
    /\ QuietTransport
    /\ QuietCommand
    /\ QuietSender
    /\ QuietLoop
    /\ QuietPlanner
    /\ QuietVehicle
    /\ QuietSteering
    /\ QuietBridge
    /\ \E g \in GainSets : pid = PIDController(g[1], g[2], g[3])
    /\ pidOut = NoOutput
    /\ pidLast = [op |-> "init", fresh |-> FALSE, dirty |-> FALSE]
    /\ pidCalls = 0

\* One call of compute.
PidCompute(setpoint, measured_value, dt) ==
    /\ pidCalls < MaxComputes
    /\ pid' = compute(pid, setpoint, measured_value, dt).state
    /\ pidOut' = <<compute(pid, setpoint, measured_value, dt).output>>
    /\ pidLast' = [op |-> "compute",
                   fresh |-> pidLast.op = "reset",
                   dirty |-> pidLast.op = "reset" /\ pidLast.dirty,
                   setpoint |-> setpoint,
                   measured_value |-> measured_value,
                   dt |-> dt]
    /\ pidCalls' = pidCalls + 1
    /\ UNCHANGED notPid

\* One call of reset.
PidReset ==
    /\ pidLast.op # "reset"
    /\ pid' = reset(pid)
    /\ pidLast' = [op |-> "reset", fresh |-> FALSE,
                   dirty |-> pid.integral # 0 \/ pid.previous_error # 0]
    /\ UNCHANGED <<pidOut, pidCalls>>
    /\ UNCHANGED notPid

NextPid ==
    \/ \E sp \in Setpoints, mv \in MeasuredValues, dt \in Dts : PidCompute(sp, mv, dt)
    \/ PidReset

SpecPid == InitPid /\ [][NextPid]_vars

\* C24: reset() sets previous_error and integral to zero, so a compute call
\* that follows a reset returns what the same call returns on a controller
\* freshly constructed with the same gains.
C24_ResetRestoresFresh ==
    /\ pidLast.op = "reset" =>
          /\ pid.previous_error = 0
          /\ pid.integral = 0
    /\ (pidLast.op = "compute" /\ pidLast.fresh) =>
          pidOut = <<compute(PIDController(pid.kp, pid.ki, pid.kd),
                             pidLast.setpoint, pidLast.measured_value,
                             pidLast.dt).output>>

\* A controller with a non-zero state was reset and then computed a non-zero
\* output.
C24_Witness ==
    /\ pidLast.op = "compute"
    /\ pidLast.fresh
    /\ pidLast.dirty
    /\ pidOut # <<0>>
    /\ pidOut # <<PidNaN>>

(***************************************************************************)
(* vehicle_controller.py, VehicleController and its event loop.  Speeds    *)
(* are whole m/s; throttle, brake, steer and the target steering are       *)
(* counted in 1/OutputScale, so that One is 1.0.                           *)
(***************************************************************************)
One == OutputScale

\* The speeds and target values the events carry.  The speed comes from the
\* simulator's datagram and the plan from another node: any float, NaN too.
Speeds == {0, 1, 5, PidNaN}
TargetSpeeds == {0, 1, 5}
TargetSteerings == {0 - 3 * One, 0 - One \div 2, 0, One, 2 * One, PidNaN}

\* VehicleController.compute_control(): the speed controller after the call
\* and the dict returned (with the PID output it was computed from).
compute_control(sc, target, speed, steering) ==
    LET r == compute(sc, target, speed, DefaultDt)
        throttle_brake == r.output
    IN  [speed_controller |-> r.state,
         control |->
            [throttle |-> IF FGt(throttle_brake, 0)
                          THEN FMin(FMax(throttle_brake, 0), One)
                          ELSE 0,
             brake |-> IF FGt(throttle_brake, 0)
                       THEN 0
                       ELSE FMin(FMax(FSub(0, throttle_brake), 0), One),
             steer |-> FMax(FMin(steering, One), 0 - One),
             output |-> throttle_brake]]

InitVehicle ==
    /\ QuietReceiver
    /\ BufferInit
    /\ QuietTransport
    /\ QuietCommand
    /\ QuietSender
    /\ QuietLoop
    /\ QuietPlanner
    /\ QuietControl

\* main(): an INPUT event with id "speed": update_speed(speed).
SpeedEvent(speed) ==
    /\ ctlCalls < MaxComputes
    /\ current_speed # speed
    /\ current_speed' = speed
    /\ UNCHANGED <<speed_controller, steering_controller, target_speed,
                   target_steering, ctlOut, ctlCalls, ctlHist>>
    /\ UNCHANGED notVehicle

\* main(): an INPUT event with id "plan": update_plan(plan), then
\* compute_control(); the command is sent and published.
PlanEvent(tspeed, tsteer) ==
    /\ ctlCalls < MaxComputes
    /\ target_speed' = tspeed
    /\ target_steering' = tsteer
    /\ speed_controller' =
          compute_control(speed_controller, tspeed, current_speed, tsteer).speed_controller
    /\ ctlOut' =
          <<compute_control(speed_controller, tspeed, current_speed, tsteer).control>>
    /\ ctlCalls' = ctlCalls + 1
    /\ ctlHist' = Append(ctlHist, FSub(tspeed, current_speed))
    /\ UNCHANGED <<steering_controller, current_speed>>
    /\ UNCHANGED notVehicle

\* speed_controller.reset(), called from outside: no code of the file calls
\* it.
ResetSpeedController ==
    /\ ctlHist # << >>
    /\ speed_controller' = reset(speed_controller)
    /\ ctlHist' = << >>
    /\ UNCHANGED <<steering_controller, current_speed, target_speed,
                   target_steering, ctlOut, ctlCalls>>
    /\ UNCHANGED notVehicle

NextVehicle ==
    \/ \E v \in Speeds : SpeedEvent(v)
    \/ \E ts \in TargetSpeeds, st \in TargetSteerings : PlanEvent(ts, st)
    \/ ResetSpeedController

SpecVehicle == InitVehicle /\ [][NextVehicle]_vars

\* C25: every command returned by compute_control has throttle in [0,1],
\* brake in [0,1] and steer in [-1,1]; a positive speed-PID output gives
\* throttle = min(output, 1) and brake 0, a non-positive one gives throttle 0
\* and brake = min(-output, 1); throttle and brake are never both non-zero.
C25_CommandInRange ==
    ctlOut # NoOutput =>
        LET c == ctlOut[1]
        IN  /\ c.throttle \in 0..One
            /\ c.brake \in 0..One
            /\ c.steer \in (0 - One)..One
            /\ ~(c.throttle # 0 /\ c.brake # 0)
            /\ c.output > 0 =>
                  /\ c.throttle = (IF c.output < One THEN c.output ELSE One)
                  /\ c.brake = 0
            /\ c.output <= 0 =>
                  /\ c.throttle = 0
                  /\ c.brake = (IF 0 - c.output < One THEN 0 - c.output ELSE One)

(***************************************************************************)
(* Claims about the commands the planner emits.                            *)
(***************************************************************************)
\* C26: every control_cmd the planner emits is the stop command (steer 0,
\* throttle 0, brake 1) or a tracking command with the constant throttle,
\* brake 0 and steer in [-1,1]; so it satisfies the transmitter's validate
\* and is transmitted as it is.
C26_PlannerCommandValid ==
    \A i \in 1..Len(emitted) :
        LET e == emitted[i]
        IN  /\ \/ /\ e.kind = "stop"
                  /\ e.steer = 0
                  /\ e.throttle = 0
                  /\ e.brake = 10
               \/ /\ e.kind = "track"
                  /\ e.throttle = CONSTANT_THROTTLE
                  /\ e.brake = 0
                  /\ e.steer >= 0 - SteerScale
                  /\ e.steer <= SteerScale
            /\ validate_control_command(AsReceived(e))
            /\ Checked(AsReceived(e)) = AsReceived(e)

\* A tracking command whose steering the clamp has cut to -1 was emitted.
C26_Witness ==
    /\ lastEvent = "fix"
    /\ Len(emitted) = 1
    /\ emitted[1].kind = "track"
    /\ emitted[1].steer = 0 - SteerScale

\* C27: a well-formed gnss_data record makes the planner emit exactly one
\* control_cmd record, stop or tracking, in TRACKING and in COMPLETED alike;
\* an event of another type or input id makes it emit none.
C27_OneCommandPerFix ==
    /\ lastEvent = "fix" =>
          /\ Len(emitted) = 1
          /\ emitted[1].kind \in {"stop", "track"}
          /\ path_completed => emitted[1].kind = "stop"
    /\ lastEvent = "other" => emitted = << >>

\* Tracking commands were emitted, the route is completed and a further fix
\* has been answered with one command.
C27_Witness ==
    /\ path_completed
    /\ total_commands_sent >= RouteLen - 1
    /\ Len(fixes) > RouteLen
    /\ lastEvent = "fix"
    /\ Len(emitted) = 1

\* C30: on a fix in TRACKING the index increases by exactly one iff the fix
\* is strictly closer than the threshold to the waypoint at the current
\* index, and is otherwise unchanged; when the index then equals the route
\* length, path_completed is set in the same step and the stop command is
\* the only output.
C30_AdvanceByOneWhenReached ==
    [][(~path_completed /\ Len(fixes') = Len(fixes) + 1) =>
          LET p == fixes'[Len(fixes')]
              i == current_waypoint_index
              near == /\ i < RouteLen
                      /\ Dist2(p, WaypointAt(i)) <
                            WAYPOINT_REACHED_THRESHOLD * WAYPOINT_REACHED_THRESHOLD
          IN  /\ near => current_waypoint_index' = i + 1
              /\ ~near => current_waypoint_index' = i
              /\ path_completed' <=> current_waypoint_index' = RouteLen
              /\ current_waypoint_index' = RouteLen =>
                    emitted' = << [kind |-> "stop", steer |-> 0, throttle |-> 0,
                                   brake |-> 10, steerArgs |-> << >>] >>]_vars

\* A fix exactly the threshold away from waypoint 0 left the index at 0, a fix
\* on waypoint 0 advanced it to 1, and a fix within the threshold of no
\* current waypoint left it at 1.
C30_Witness ==
    /\ Len(fixes) = 3
    /\ fixes[1] = <<2, 0>>
    /\ fixes[2] = <<0, 0>>
    /\ fixes[3] = <<2, 0>>
    /\ current_waypoint_index = 1
    /\ ~path_completed

(***************************************************************************)
(* calculate_pure_pursuit_steering applied on its own to a vehicle         *)
(* position, a heading and a target point.                                 *)
(***************************************************************************)
SteerPositions == {<<0, 0>>, <<2, 0>>, <<50, 50>>}
SteerHeadings == {0, Radians(90), Radians(180), 0 - Radians(90)}
SteerTargets == {<<5, 5>>, <<5, 0>>, <<5, 0 - 5>>, <<0, 5>>, <<0, 0>>, <<50, 0>>}

InitSteering ==
    /\ QuietReceiver
    /\ BufferInit
    /\ QuietTransport
    /\ QuietCommand
    /\ QuietSender
    /\ QuietLoop
    /\ QuietPlanner
    /\ QuietPid
    /\ QuietVehicle
    /\ QuietBridge
    /\ steerIn \in SteerPositions \X SteerHeadings \X SteerTargets
    /\ steerOut = NoOutput

ApplySteering ==
    /\ steerOut = NoOutput
    /\ steerOut' = <<calculate_pure_pursuit_steering(steerIn[1], steerIn[2], steerIn[3])>>
    /\ UNCHANGED steerIn
    /\ UNCHANGED notSteering

NextSteering == ApplySteering

SpecSteering == InitSteering /\ [][NextSteering]_vars

\* C28: with the vehicle at (0,0), heading 0, the steering for the lookahead
\* point (5,5) is positive and within [-1,1]; for the point (5,0) straight
\* ahead it is 0 (to the thousandth).
C28_SteeringSignAndRange ==
    steerOut # NoOutput =>
        /\ steerIn = << <<0, 0>>, 0, <<5, 5>> >> =>
              /\ steerOut[1] > 0
              /\ steerOut[1] <= SteerScale
        /\ steerIn = << <<0, 0>>, 0, <<5, 0>> >> => steerOut[1] = 0

\* The steering for the point (5,5) has been computed.
C28_Witness ==
    /\ steerIn = << <<0, 0>>, 0, <<5, 5>> >>
    /\ steerOut # NoOutput

(***************************************************************************)
(* agent_wrapper.py, DoraUDPBridge.receive_control.  recv_socket has the   *)
(* timeout set in __init__, so recvfrom returns the oldest waiting         *)
(* datagram or raises socket.timeout once the timeout has passed with      *)
(* none waiting.                                                           *)
(***************************************************************************)
\* What a datagram holds: the msgpack of a command dict, the msgpack of
\* another value, bytes msgpack cannot unpack, or a message longer than the
\* 4096 bytes recvfrom asks for (it is cut, and what is left does not unpack).
DatagramKinds == {"command", "value", "garbage", "oversize"}

\* msgpack.unpackb raises on this datagram.
UnpackFails(d) == d.kind \in {"garbage", "oversize"}

\* Mutant of AfterTimeout: socket.timeout is not caught.
AfterTimeoutUncaught == [ret |-> None, raised |-> TRUE]

\* `except socket.timeout: return None`.
AfterTimeout == [ret |-> None, raised |-> FALSE]

InitBridge ==
    /\ QuietReceiver
    /\ BufferInit
    /\ QuietTransport
    /\ QuietCommand
    /\ QuietSender
    /\ QuietLoop
    /\ QuietPlanner
    /\ QuietControl

\* The control side sends a datagram to the bridge's port.
DatagramSent(kind) ==
    /\ bridgeSent < MaxSamples
    /\ bridgeSent' = bridgeSent + 1
    /\ bridgeQueue' = Append(bridgeQueue, [id |-> bridgeSent + 1, kind |-> kind])
    /\ UNCHANGED <<bridgePc, bridgeRet, bridgeRaised, bridgeTaken>>
    /\ UNCHANGED notBridge

\* receive_control() is called.
ReceiveCall ==
    /\ bridgePc = "idle"
    /\ bridgePc' = "recvfrom"
    /\ bridgeRet' = NoOutput
    /\ bridgeTaken' = NoOutput
    /\ UNCHANGED <<bridgeQueue, bridgeRaised, bridgeSent>>
    /\ UNCHANGED notBridge

\* recvfrom(4096) returns the oldest datagram; msgpack.unpackb gives the
\* value that is returned, or raises and `except Exception` returns None.
RecvfromReturns ==
    /\ bridgePc = "recvfrom"
    /\ bridgeQueue # << >>
    /\ bridgeQueue' = Tail(bridgeQueue)
    /\ bridgeTaken' = <<Head(bridgeQueue)>>
    /\ bridgeRet' = <<IF UnpackFails(Head(bridgeQueue)) THEN None
                      ELSE Head(bridgeQueue).id>>
    /\ bridgePc' = "returned"
    /\ UNCHANGED <<bridgeRaised, bridgeSent>>
    /\ UNCHANGED notBridge

\* The timeout passes with no datagram waiting: recvfrom raises
\* socket.timeout.
RecvfromTimesOut ==
    /\ bridgePc = "recvfrom"
    /\ bridgeQueue = << >>
    /\ bridgeRet' = <<AfterTimeout.ret>>
    /\ bridgeRaised' = AfterTimeout.raised
    /\ bridgePc' = "returned"
    /\ UNCHANGED <<bridgeQueue, bridgeTaken, bridgeSent>>
    /\ UNCHANGED notBridge

\* recvfrom raises another error: `except Exception` prints it and returns
\* None.
RecvfromFails ==
    /\ bridgePc = "recvfrom"
    /\ bridgeRet' = <<None>>
    /\ bridgePc' = "returned"
    /\ UNCHANGED <<bridgeQueue, bridgeRaised, bridgeTaken, bridgeSent>>
    /\ UNCHANGED notBridge

\* The caller goes on with what was returned, until its next call.
BridgeResumes ==
    /\ bridgePc = "returned"
    /\ bridgePc' = "idle"
    /\ UNCHANGED <<bridgeQueue, bridgeRet, bridgeRaised, bridgeTaken, bridgeSent>>
    /\ UNCHANGED notBridge

NextBridge ==
    \/ \E k \in DatagramKinds : DatagramSent(k)
    \/ ReceiveCall
    \/ RecvfromReturns
    \/ RecvfromTimesOut
    \/ RecvfromFails
    \/ BridgeResumes

SpecBridge == InitBridge /\ [][NextBridge]_vars

\* C29: receive_control returns None, without raising and without waiting
\* past the socket timeout, whenever no control datagram has arrived, and it
\* returns a command only when one was received.
C29_NoneWithoutDatagram ==
    /\ ~bridgeRaised
    /\ bridgePc = "recvfrom" => ENABLED (RecvfromReturns \/ RecvfromTimesOut)
    /\ (bridgePc = "returned" /\ bridgeTaken = NoOutput) => bridgeRet = <<None>>
    /\ (bridgePc = "returned" /\ bridgeRet # <<None>>) =>
          /\ bridgeTaken # NoOutput
          /\ ~UnpackFails(bridgeTaken[1])
          /\ bridgeRet = <<bridgeTaken[1].id>>

\* A call has returned None by the timeout, nothing having been sent.
C29_Witness ==
    /\ bridgePc = "returned"
    /\ bridgeSent = 0
    /\ bridgeTaken = NoOutput
    /\ bridgeRet = <<None>>

(***************************************************************************)
(* Claims about the lookahead point and the heading of a tracking command. *)
(***************************************************************************)
\* C31: the lookahead point of a tracking command is the first waypoint, at
\* an index >= the current waypoint index, that is at least 80% of the
\* lookahead distance away from the vehicle, and the final waypoint when
\* there is none; selecting it does not change the waypoint index, which
\* moves only by the reached test.
C31_LookaheadIsFirstFarWaypoint ==
    /\ [](lastEvent = "fix" /\ Len(emitted) = 1 /\ emitted[1].kind = "track" =>
            LET p == emitted[1].steerArgs[1]
                t == emitted[1].steerArgs[3]
                i == current_waypoint_index
                far(j) == 25 * Dist2(p, DEFAULT_ROUTE[j + 1]) >=
                             16 * LOOKAHEAD_DISTANCE * LOOKAHEAD_DISTANCE
            IN  /\ t >= i
                /\ t < RouteLen
                /\ \A j \in i..(t - 1) : ~far(j)
                /\ far(t) \/ t = RouteLen - 1)
    /\ [][(~path_completed /\ Len(fixes') = Len(fixes) + 1) =>
            current_waypoint_index' =
               IF Dist2(fixes'[Len(fixes')], DEFAULT_ROUTE[current_waypoint_index + 1])
                     < WAYPOINT_REACHED_THRESHOLD * WAYPOINT_REACHED_THRESHOLD
               THEN current_waypoint_index + 1
               ELSE current_waypoint_index]_vars

\* A tracking command whose lookahead point lies past the current waypoint
\* (which is too close) and before the final one.
C31_Witness ==
    /\ lastEvent = "fix"
    /\ Len(emitted) = 1
    /\ emitted[1].kind = "track"
    /\ emitted[1].steerArgs[3] > current_waypoint_index
    /\ emitted[1].steerArgs[3] < RouteLen - 1

RECURSIVE SumOfErrors(_)
\* The sum of error * dt over the compute calls of compute_control, which
\* all use the default dt.
SumOfErrors(h) ==
    IF h = << >> THEN 0
    ELSE FAdd(SumOfErrors(SubSeq(h, 1, Len(h) - 1)), FMul(h[Len(h)], DefaultDt))

\* C33: the state of the speed PID changes only through compute and reset:
\* since construction or the last reset its integral is the sum of
\* error * dt over the compute calls and its previous_error the error of the
\* last one; update_plan, update_speed, compute_control and send_control
\* neither zero nor decay it.
C33_PidStateOnlyByComputeAndReset ==
    /\ [](/\ speed_controller.integral = SumOfErrors(ctlHist)
          /\ speed_controller.previous_error =
                (IF ctlHist = << >> THEN 0 ELSE ctlHist[Len(ctlHist)])
          /\ speed_controller.kp = 50
          /\ speed_controller.ki = 10
          /\ speed_controller.kd = 5)
    /\ [][speed_controller' # speed_controller =>
             \/ ctlCalls' = ctlCalls + 1
             \/ ctlHist' = << >>]_vars

\* Two commands were computed with errors that are numbers and not zero, and
\* a speed event followed.
C33_Witness ==
    /\ ctlCalls = 2
    /\ Len(ctlHist) = 2
    /\ ctlHist[1] \notin {0, PidNaN}
    /\ ctlHist[2] \notin {0, PidNaN}
    /\ speed_controller.integral = ctlHist[1] + ctlHist[2]
    /\ FSub(target_speed, current_speed) # ctlHist[2]

\* C34: compute called with dt <= 0 takes the derivative as zero and returns
\* kp * error + ki * integral, without a division error; it still adds
\* error * dt to the integral and records the error as previous_error.
C34_NonPositiveDt ==
    [][(pidLast'.op = "compute" /\ pidCalls' = pidCalls + 1 /\ pidLast'.dt <= 0
          /\ pidLast'.setpoint # PidNaN /\ pid.integral # PidNaN) =>
          LET error == pidLast'.setpoint - pidLast'.measured_value
          IN  /\ pid'.integral = pid.integral + error * pidLast'.dt
              /\ pid'.previous_error = error
              /\ pidOut' = <<pid.kp * DtScale * error + pid.ki * pid'.integral>>]_vars

\* A compute call with a negative dt, an error that changed and a non-zero
\* derivative gain has returned.
C34_Witness ==
    /\ pidLast.op = "compute"
    /\ pidLast.dt < 0
    /\ pidLast.setpoint # PidNaN
    /\ pid.integral \notin {0, PidNaN}
    /\ pidCalls >= 2
    /\ pidOut # <<0>>

\* C35: the steer of a returned command is the target steering clamped to
\* [-1, 1], whatever the current speed and the PID state, and the steering
\* PID is never invoked: its previous_error and integral stay zero over
\* every sequence of plan and speed events.
C35_SteerIsClampedTarget ==
    /\ steering_controller.previous_error = 0
    /\ steering_controller.integral = 0
    /\ ctlOut # NoOutput =>
          LET steer == ctlOut[1].steer
          IN  /\ steer >= 0 - One
              /\ steer <= One
              /\ steer = (IF target_steering > One THEN One
                          ELSE IF target_steering < 0 - One THEN 0 - One
                          ELSE target_steering)

(***************************************************************************)
(* Claims about what the receiver publishes.                               *)
(***************************************************************************)
\* p is s with elements left out: the elements of p are elements of s at
\* increasing positions.
IsSubsequence(p, s) ==
    \E f \in [1..Len(p) -> 1..Len(s)] :
        /\ \A i \in 1..Len(p) : s[f[i]] = p[i]
        /\ \A i, j \in 1..Len(p) : i < j => f[i] < f[j]

\* C36: for each kind, every sample main() publishes was stored by exactly
\* one set, no stored sample is published more than once, and the samples of
\* one kind are published in the order they were stored, under every
\* interleaving of the listener threads and the main loop.
C36_PublishedOnceInStoredOrder ==
    \A k \in Kinds :
        /\ IsSubsequence(published[k], stored[k])
        /\ \A i \in 1..Len(published[k]) :
             /\ Cardinality({j \in 1..Len(stored[k]) :
                               stored[k][j] = published[k][i]}) = 1
             /\ \A o \in Kinds \ {k} : published[k][i] \notin SeqRange(stored[o])
             /\ \A j \in 1..Len(published[k]) :
                  published[k][j] = published[k][i] => j = i

\* Two lidar samples were published, and the one received second by its
\* handler was stored and published first.
C36_Witness ==
    /\ Len(published["lidar"]) = 2
    /\ published["lidar"][1] > published["lidar"][2]

\* The payload of message m of connection h, len bytes long.
WholePayload(h, m, len) == [i \in 1..len |-> <<h, m, i>>]

\* C37: with several stream connections handled concurrently the LiDAR slot
\* holds the complete payload of one message of one connection: what a
\* handler hands to set_lidar is the whole payload of its own message, with
\* no byte of another connection or message, and the slot is assigned by one
\* set, with the message of the handler that makes it.
C37_SlotHoldsOneWholeMessage ==
    /\ [](\A h \in Handlers :
            /\ Len(received_data[h]) = got[h]
            /\ Storing(h) =>
                 received_data[h] = WholePayload(h, argVal[h], msgLen[h]))
    /\ [][data'["lidar"] # data["lidar"] =>
            \E h \in Handlers :
                /\ pc[h] = "set_data"
                /\ pc'[h] = "set_flag"
                /\ lock = h
                /\ data'["lidar"] = argVal[h]
                /\ received_data'[h] = WholePayload(h, argVal[h], msgLen[h])]_vars

\* The second connection stored its whole message while the first one, whose
\* message was begun earlier, has part of its payload assembled.
C37_Witness ==
    /\ pc["tcp1"] = "recv_payload"
    /\ Len(received_data["tcp1"]) = 1
    /\ pc["tcp2"] = "set_flag"
    /\ data["lidar"] = argVal["tcp2"]
    /\ Len(received_data["tcp2"]) = MaxLen
    /\ argVal["tcp2"] > argVal["tcp1"]

(***************************************************************************)
(* Claims about the counters of one send_control_command call.             *)
(***************************************************************************)
\* C38: a send_control_command call changes at most one of commands_sent and
\* send_failures, by exactly 1; it returns True exactly when it incremented
\* commands_sent, and leaves commands_sent unchanged when it returns False;
\* so commands_sent + send_failures never exceeds the number of calls.
C38_OneCounterPerCall ==
    /\ commandsSent + sendFailures <= calls
    /\ sendPc # "idle" =>
         /\ commandsSent - sentAtCall \in {0, 1}
         /\ sendFailures - failAtCall \in {0, 1}
         /\ (commandsSent - sentAtCall) + (sendFailures - failAtCall) <= 1
    /\ sendPc = "returned" =>
         /\ retVal \in {"true", "false"}
         /\ retVal = "true" <=> commandsSent = sentAtCall + 1
         /\ retVal = "false" => commandsSent = sentAtCall

\* A call that sent its command was followed by a call that gave up after
\* its last attempt: each changed one counter, and the sum is the number of
\* calls.
C38_Witness ==
    /\ sendPc = "returned"
    /\ retVal = "false"
    /\ calls = 2
    /\ sentAtCall = 1
    /\ commandsSent = 1
    /\ failAtCall = 0
    /\ sendFailures = 1

(***************************************************************************)
(* Claims about the completion flag and about malformed records.           *)
(***************************************************************************)
\* C39: for the fixed route, in every reachable state of the planner
\* path_completed is true exactly when current_waypoint_index = len(route).
C39_FlagAgreesWithIndex ==
    path_completed <=> current_waypoint_index = RouteLen

\* The route is completed and events of every sort were processed after the
\* completing fix.
C39_Witness ==
    /\ path_completed
    /\ current_waypoint_index = RouteLen
    /\ Len(fixes) > RouteLen
    /\ vehicle_position = <<NonNumeric, NonNumeric>>
    /\ lastEvent = "malformed"

\* C40: a gnss_data event whose record cannot be decoded, or whose position
\* or heading is not a number, makes the planner emit no command and leaves
\* current_waypoint_index and path_completed as they were; nothing is raised
\* to the caller, and a well-formed fix that follows is processed as usual:
\* it is stored as the position, advances the index by the reached test and
\* emits its one command.
C40_MalformedRecordSwallowed ==
    /\ [][lastEvent' = "malformed" =>
            /\ emitted' = << >>
            /\ current_waypoint_index' = current_waypoint_index
            /\ path_completed' = path_completed
            /\ total_commands_sent' = total_commands_sent
            /\ fixes' = fixes]_vars
    /\ [][(lastEvent = "malformed" /\ lastEvent' = "fix") =>
            LET p == fixes'[Len(fixes')]
                reached == /\ current_waypoint_index < RouteLen
                           /\ Dist2(p, DEFAULT_ROUTE[current_waypoint_index + 1])
                                < WAYPOINT_REACHED_THRESHOLD * WAYPOINT_REACHED_THRESHOLD
            IN  /\ Len(fixes') = Len(fixes) + 1
                /\ vehicle_position' = p
                /\ current_waypoint_index' =
                      (IF reached /\ ~path_completed THEN current_waypoint_index + 1
                       ELSE current_waypoint_index)
                /\ Len(emitted') = 1
                /\ emitted'[1].kind = (IF path_completed' THEN "stop" ELSE "track")
                /\ emitted'[1].kind = "track" => emitted'[1].steerArgs[1] = p]_vars

\* A record with a non-numeric position and a heading was swallowed while
\* the planner was tracking: the position and the heading of the record are
\* kept, nothing was emitted, the index is where the fix before left it.
C40_Witness ==
    /\ lastEvent = "malformed"
    /\ vehicle_position = <<NonNumeric, NonNumeric>>
    /\ vehicle_heading = Radians(90)
    /\ emitted = << >>
    /\ current_waypoint_index = 1
    /\ ~path_completed
    /\ total_commands_sent = 1
    /\ Len(fixes) = 1

=============================================================================
